---- MODULE Spec2Model ----
(***************************************************************************)
(* Verification model of the stock-project repository: the daily-bar       *)
(* store, the streaming nine-turn strategy processor, the history          *)
(* collector, the scheduler service's job registry, the basic-snapshot     *)
(* store, the stock service and the HTTP controllers.                      *)
(*                                                                         *)
(* Conventions: prices are the x100 scaled integers the code stores; a     *)
(* date is a day ordinal (0 stands for a missing date); an Elasticsearch   *)
(* index is a set of documents [id, source] in which indexing a document   *)
(* replaces the one with the same id.                                      *)
(***************************************************************************)
EXTENDS Integers, Sequences, FiniteSets, TLC

VARIABLES
    last_op,          \* name of the operation that produced the current state
    daily_index,      \* documents of the daily-bar index (stock_daily_data)
    daily_client,     \* DailyDataStorage.es_client is not None
    quote,            \* the last quote handed to process_element
    strategy_out,     \* what process_element collected for that quote
    strategy_index,   \* documents saved by _save_strategy_result
    lookback_data,    \* what _get_historical_data returned for that quote
    df,               \* raw rows handed to process_history_data
    processed_data,   \* what process_history_data returned for df
    stock_codes,      \* collect_history_data_by_codes: the code list
    batch_size,       \* collect_history_data_by_codes: batch_size argument
    hc_pc,            \* collect_history_data_by_codes: control position
    hc_k,             \* position in stock_codes of the code being handled
    batch_data,       \* processed records of the current batch
    success_count,
    failed_count,
    total_count,
    fetch_log,        \* per handled code: did the upstream fetch return rows
    save_log,         \* per flushed batch: what save_daily_data returned
    hc_events,        \* the fetches and saves of the call, in the order they were made
    hc_result,        \* the returned tally
    jobs,             \* job registry of SchedulerService.scheduler, in insertion order
    aps_running,      \* SchedulerService.scheduler.running
    sched_call,       \* the last step's SchedulerService call and its arguments
    sched_ret,        \* what that call returned
    sched_raised,     \* whether that call raised instead of returning
    http_req,         \* the last step's HTTP request
    http_resp,        \* the response it was answered with
    auto_start_scheduler,  \* app.config['AUTO_START_SCHEDULER']
    basic_index,      \* documents of the basic-snapshot index (stock_basic_data)
    basic_client,     \* ElasticsearchStorage.es_client is not None
    save_call,        \* the last save_stock_data call: its list and its flag
    save_ret,         \* what that call returned
    es_reachable,     \* the storage engine answers a ping
    scheduler_constructible,  \* StockDataScheduler() does not raise
    svc_es_storage,   \* StockService.es_storage is not None
    svc_scheduler,    \* StockService.scheduler is not None
    health,           \* what StockService.health_check returned
    collect_calls,    \* number of StockService.collect_history_data calls started
    ctor_args,        \* arguments of the last HistoryCollectRequest construction
    ctor_result,      \* the request it built, or the error it raised
    cfg_schedule_time,  \* DATA_COLLECTION_CONFIG['schedule_time'], if the key is set
    sds,              \* the StockDataScheduler instance
    schedule_jobs,    \* schedule.jobs, the registry of the schedule module
    fsd,              \* the FlaskStockDataScheduler instance, if one was built
    ts_ret,           \* what the last call on one of the two schedulers returned
    ts_arg,           \* the new_time that call was given, if it takes one
    rt_rows,          \* the rows the two spot endpoints return in this cycle
    rt_sent,          \* records sent to the message bus in this cycle
    rt_result,        \* what collect_all_realtime_data returned
    del_call,         \* arguments of the last delete_daily_data call
    del_ret,          \* what that call returned
    del_requests,     \* delete-by-query requests that call issued to the daily-bar index
    nt_index,         \* documents of the nine-turn signal index
    nt_clock,         \* datetime.now(), in ticks
    nt_call,          \* the stock_data of the last save_strategy_signal call
    nt_ret,           \* what that call returned
    wk_is_running,    \* StockDataScheduler.is_running as the worker threads read it
    wk_threads,       \* the worker threads started so far, each at its position in the loop
    wk_caller,        \* position of the thread that calls start() and stop()
    fl_pc,            \* per invoking thread, its position in collect_and_save_data
    fl_lock,          \* the thread holding FlaskStockDataScheduler._lock, 0 if none
    sg_instance,      \* per accessor, the module-level instance (0 stands for None)
    sg_constructed,   \* per accessor, the number of service objects constructed
    sg_returned,      \* per accessor, the instances its calls have returned
    sg_threads,       \* per request thread, its position in an accessor call
    rq_pc,            \* position of a retry loop
    rq_max,           \* max_retries or retry_times of the call
    rq_log,           \* the upstream's response to each attempt made
    rq_sleeps,        \* per attempt, the seconds slept after it (0 for none)
    rq_ret,           \* what the call returned
    rq_target,        \* the symbol or the upstream endpoint the call is for
    hs_universe,      \* the symbol codes of the stock_basic_data index, ascending
    hs_call,          \* the last call of setup_history_schedule_once
    hs_ret,           \* what it returned or raised
    hs_backfills,     \* the backfills run during that call
    hs_jobs,          \* the jobs of the schedule registry tagged history_once
    sc_pc,            \* position of get_all_stock_codes
    sc_codes,         \* the stock_codes list gathered so far
    sc_scrolls,       \* the scroll requests made by the call
    sc_context,       \* whether the call opened a scroll context, and whether it is still open
    sc_clear,         \* whether clear_scroll was attempted
    sc_ret,           \* the codes the call returned
    ap_running,       \* per SchedulerService constructed, whether its APScheduler runs; the first is the one create_app binds to the application
    ap_accessor,      \* the instance held by the global of get_scheduler_service (0 stands for None)
    ap_requests,      \* the requests received
    ap_hook_runs,     \* the runs of initialize_app
    ap_exited,        \* whether the signal handler ended the process
    rj_kind,          \* the realtime job that ran last
    rj_markets,       \* the markets that job fetched
    rj_outcome,       \* how that job ended
    bf_upstream,      \* the close the upstream reports for each day
    bf_range,         \* the date range of the last backfill
    bf_count          \* the backfills run so far

dailyVars == <<daily_index, daily_client>>
strategyVars == <<quote, strategy_out, strategy_index, lookback_data>>
processVars == <<df, processed_data>>
collectVars == <<stock_codes, batch_size, hc_pc, hc_k, batch_data, success_count,
                 failed_count, total_count, fetch_log, save_log, hc_result, hc_events>>

schedVars == <<jobs, aps_running, sched_call, sched_ret, sched_raised>>
httpVars == <<http_req, http_resp, auto_start_scheduler>>

basicVars == <<basic_index, basic_client, save_call, save_ret>>
serviceVars == <<es_reachable, scheduler_constructible, svc_es_storage, svc_scheduler,
                 health, collect_calls>>
requestVars == <<ctor_args, ctor_result>>
taskVars == <<cfg_schedule_time, sds, schedule_jobs, fsd, ts_ret, ts_arg>>
realtimeVars == <<rt_rows, rt_sent, rt_result>>
deleteVars == <<del_call, del_ret, del_requests>>
signalVars == <<nt_index, nt_clock, nt_call, nt_ret>>
workerVars == <<wk_is_running, wk_threads, wk_caller>>
lockVars == <<fl_pc, fl_lock>>
singletonVars == <<sg_instance, sg_constructed, sg_returned, sg_threads>>
retryVars == <<rq_pc, rq_max, rq_log, rq_sleeps, rq_ret, rq_target>>
setupVars == <<hs_universe, hs_call, hs_ret, hs_backfills, hs_jobs>>
scrollVars == <<sc_pc, sc_codes, sc_scrolls, sc_context, sc_clear, sc_ret>>
appVars == <<ap_running, ap_accessor, ap_requests, ap_hook_runs, ap_exited>>
jobVars == <<rj_kind, rj_markets, rj_outcome>>
backfillVars == <<bf_upstream, bf_range, bf_count>>

vars == <<last_op, dailyVars, strategyVars, processVars, collectVars, schedVars,
          httpVars, basicVars, serviceVars, requestVars, taskVars, realtimeVars,
          deleteVars,
        signalVars,
        workerVars,
        lockVars,
        singletonVars,
        retryVars,
        setupVars,
        scrollVars,
        appVars,
        jobVars,
        backfillVars>>

\* the parts an operation of one component leaves alone
OutsideStrategy == <<processVars, collectVars, schedVars, httpVars, basicVars,
                     serviceVars, requestVars,
        taskVars, realtimeVars, deleteVars,
        signalVars,
        workerVars,
        lockVars,
        singletonVars,
        retryVars,
        setupVars,
        scrollVars,
        appVars,
        jobVars,
        backfillVars>>
OutsideProcess == <<dailyVars, strategyVars, collectVars, schedVars, httpVars,
                    basicVars, serviceVars, requestVars,
        taskVars, realtimeVars, deleteVars,
        signalVars,
        workerVars,
        lockVars,
        singletonVars,
        retryVars,
        setupVars,
        scrollVars,
        appVars,
        jobVars,
        backfillVars>>
OutsideCollect == <<strategyVars, schedVars, httpVars, basicVars, serviceVars,
                    requestVars,
        taskVars, realtimeVars, deleteVars,
        signalVars,
        workerVars,
        lockVars,
        singletonVars,
        retryVars,
        setupVars,
        scrollVars,
        appVars,
        jobVars,
        backfillVars>>
OutsideSched == <<dailyVars, strategyVars, processVars, collectVars, basicVars,
                  serviceVars, requestVars,
        taskVars, realtimeVars, deleteVars,
        signalVars,
        workerVars,
        lockVars,
        singletonVars,
        retryVars,
        setupVars,
        scrollVars,
        appVars,
        jobVars,
        backfillVars>>
OutsideBasic == <<dailyVars, strategyVars, processVars, collectVars, schedVars,
                  httpVars, serviceVars, requestVars,
        taskVars, realtimeVars, deleteVars,
        signalVars,
        workerVars,
        lockVars,
        singletonVars,
        retryVars,
        setupVars,
        scrollVars,
        appVars,
        jobVars,
        backfillVars>>
OutsideService == <<dailyVars, strategyVars, processVars, collectVars, schedVars,
                    basicVars,
        taskVars, realtimeVars, deleteVars,
        signalVars,
        workerVars,
        lockVars,
        singletonVars,
        retryVars,
        setupVars,
        scrollVars,
        appVars,
        jobVars,
        backfillVars>>
OutsideTask == <<dailyVars, strategyVars, processVars, collectVars, schedVars,
                 httpVars, basicVars, serviceVars, requestVars, realtimeVars,
                 deleteVars,
        signalVars,
        workerVars,
        lockVars,
        singletonVars,
        retryVars,
        setupVars,
        scrollVars,
        appVars,
        jobVars,
        backfillVars>>
OutsideRealtime == <<strategyVars, processVars, collectVars, schedVars, httpVars,
                     basicVars, serviceVars, requestVars, taskVars, deleteVars,
        signalVars,
        workerVars,
        lockVars,
        singletonVars,
        retryVars,
        setupVars,
        scrollVars,
        appVars,
        backfillVars>>
OutsideDelete == <<strategyVars, processVars, collectVars, schedVars, httpVars,
                   basicVars, serviceVars, requestVars, taskVars, realtimeVars,
        signalVars,
        workerVars,
        lockVars,
        singletonVars,
        retryVars,
        setupVars,
        scrollVars,
        appVars,
        jobVars,
        backfillVars>>
OutsideRequest == <<dailyVars, strategyVars, processVars, collectVars, schedVars,
                    httpVars, basicVars, serviceVars,
        taskVars, realtimeVars, deleteVars,
        signalVars,
        workerVars,
        lockVars,
        singletonVars,
        retryVars,
        setupVars,
        scrollVars,
        appVars,
        jobVars,
        backfillVars>>

(***************************************************************************)
(* Bounds and input domains                                                *)
(***************************************************************************)
MaxDay == 3
LookbackDays == 4

Days == 1..MaxDay
NoDate == 0
StockCodes == {"000001", "600000"}
StoredCloses == {0, 1000}
QuoteCloses == {0, 950, 1000, 1050}
None == [none |-> TRUE]

(***************************************************************************)
(* Generic helpers                                                         *)
(***************************************************************************)
Range(s) == {s[i] : i \in 1..Len(s)}

Min(a, b) == IF a < b THEN a ELSE b

\* round(x / y, 0) for non-negative integers, as an integer
RoundDiv(x, y) == (2 * x + y) \div (2 * y)

(***************************************************************************)
(* DailyDataStorage                                                        *)
(***************************************************************************)
DailyDocId(data) == <<data.stock_code, data.date>>

\* one bulk index action: the document with the same _id is replaced
IndexDoc(index, id, source) ==
    {d \in index : d.id # id} \cup {[id |-> id, source |-> source]}

RECURSIVE BulkIndexDaily(_, _)
BulkIndexDaily(index, data_list) ==
    IF data_list = <<>> THEN index
    ELSE BulkIndexDaily(IndexDoc(index, DailyDocId(Head(data_list)), Head(data_list)),
                        Tail(data_list))

\* sort order of search_daily_data: date descending, then stock_code ascending
CodeRank(c) == IF c = "000001" THEN 1 ELSE IF c = "600000" THEN 2 ELSE 3

SortsBefore(a, b) ==
    \/ a.date > b.date
    \/ a.date = b.date /\ CodeRank(a.stock_code) < CodeRank(b.stock_code)

RECURSIVE SortHits(_)
SortHits(S) ==
    IF S = {} THEN <<>>
    ELSE LET first == CHOOSE a \in S : \A b \in S \ {a} : SortsBefore(a, b)
         IN  <<first>> \o SortHits(S \ {first})

\* the keyword parameters search_daily_data declares
SearchDailyParams ==
    {"stock_code", "start_date", "end_date", "market_type", "size", "sort_by_date"}

search_daily_data(index, client, stock_code, end_date, size) ==
    IF ~client THEN <<>>
    ELSE LET hits == {d.source : d \in {x \in index :
                         /\ (stock_code # "" => x.source.stock_code = stock_code)
                         /\ (end_date # NoDate => x.source.date <= end_date)}}
             sorted == SortHits(hits)
         IN  SubSeq(sorted, 1, Min(size, Len(sorted)))

(***************************************************************************)
(* StockDataProcessor (streaming nine-turn strategy)                       *)
(***************************************************************************)
\* the keyword arguments _get_historical_data passes to search_daily_data
HistoricalCallKwargs ==
    {"stock_code", "size", "sort_by_date", "ascending", "end_date"}

\* a call with a keyword the callee does not declare raises TypeError, which
\* _get_historical_data catches and turns into an empty list
get_historical_data(index, client, stock_code, current_date, days) ==
    IF ~(HistoricalCallKwargs \subseteq SearchDailyParams) THEN <<>>
    ELSE search_daily_data(index, client, stock_code, current_date - 1, days)

StrategyData(q, first_close_price) ==
    [date |-> q.date,
     stock_code |-> q.stock_code,
     current_price |-> q.close_price,
     compare_price |-> first_close_price,
     price_diff |-> q.close_price - first_close_price,
     \* round(diff / compare * 10000, 2), kept as an integer number of units
     price_diff_percent |->
         RoundDiv((q.close_price - first_close_price) * 10000, first_close_price)]

\* a strategy that signals on every quote, comparing its price with itself
execute_nine_turn_strategy_unchecked(index, client, q) ==
    [date |-> q.date,
     stock_code |-> q.stock_code,
     current_price |-> q.close_price,
     compare_price |-> q.close_price,
     price_diff |-> 0,
     price_diff_percent |-> 0]

\* StockDataProcessor._execute_nine_turn_strategy
execute_nine_turn_strategy(index, client, q) ==
    IF q.stock_code = "" \/ q.date = NoDate \/ q.close_price <= 0 THEN None
    ELSE LET historical_data ==
                 get_historical_data(index, client, q.stock_code, q.date, LookbackDays)
         IN  IF Len(historical_data) = 0 THEN None
             ELSE LET first_close_price == historical_data[1].close_price
                  IN  IF first_close_price <= 0 THEN None
                      ELSE IF q.close_price > first_close_price
                           THEN StrategyData(q, first_close_price)
                           ELSE None

Quotes ==
    [stock_code : StockCodes \cup {""}, date : Days \cup {NoDate, MaxDay + 1},
     close_price : QuoteCloses]

DailyRecords ==
    [stock_code : {"000001"}, date : Days, close_price : StoredCloses,
     prev_close_price : {0}]
    \cup [stock_code : {"600000"}, date : {1}, close_price : {1000},
          prev_close_price : {0}]

(***************************************************************************)
(* Initial values of the parts a specification does not exercise           *)
(***************************************************************************)
IdleDaily == daily_index = {} /\ daily_client = TRUE

IdleStrategy ==
    /\ quote = None /\ strategy_out = None /\ strategy_index = {}
    /\ lookback_data = <<>>

IdleProcess == df = <<>> /\ processed_data = <<>>

IdleCollect ==
    /\ stock_codes = <<>>
    /\ batch_size = 1
    /\ hc_pc = "idle"
    /\ hc_k = 0
    /\ batch_data = <<>>
    /\ success_count = 0
    /\ failed_count = 0
    /\ total_count = 0
    /\ fetch_log = <<>>
    /\ save_log = <<>>
    /\ hc_events = <<>>
    /\ hc_result = None

IdleSched ==
    /\ jobs = <<>>
    /\ aps_running = FALSE
    /\ sched_call = None
    /\ sched_ret = None
    /\ sched_raised = FALSE

IdleHttp == http_req = None /\ http_resp = None /\ auto_start_scheduler = FALSE

IdleBasic ==
    /\ basic_index = {}
    /\ basic_client = TRUE
    /\ save_call = None
    /\ save_ret = None

IdleService ==
    /\ es_reachable = TRUE
    /\ scheduler_constructible = TRUE
    /\ svc_es_storage = FALSE
    /\ svc_scheduler = FALSE
    /\ health = None
    /\ collect_calls = 0

IdleRequest == ctor_args = None /\ ctor_result = None

IdleTask ==
    /\ cfg_schedule_time = None
    /\ sds = None
    /\ schedule_jobs = <<>>
    /\ fsd = None
    /\ ts_ret = None
    /\ ts_arg = <<>>

IdleRealtime == rt_rows = <<>> /\ rt_sent = <<>> /\ rt_result = None

IdleDelete == del_call = None /\ del_ret = None /\ del_requests = <<>>

IdleSignal ==
    /\ nt_index = {}
    /\ nt_clock = 0
    /\ nt_call = None
    /\ nt_ret = None

IdleWorker ==
    /\ wk_is_running = FALSE
    /\ wk_threads = <<>>
    /\ wk_caller = "idle"

IdleLock ==
    /\ fl_pc = <<>>
    /\ fl_lock = 0

IdleSingleton ==
    /\ sg_instance = <<>>
    /\ sg_constructed = <<>>
    /\ sg_returned = <<>>
    /\ sg_threads = <<>>

IdleRetry ==
    /\ rq_pc = "off"
    /\ rq_max = 0
    /\ rq_log = <<>>
    /\ rq_sleeps = <<>>
    /\ rq_ret = <<>>
    /\ rq_target = ""

IdleSetup ==
    /\ hs_universe = <<>>
    /\ hs_call = None
    /\ hs_ret = None
    /\ hs_backfills = <<>>
    /\ hs_jobs = <<>>

IdleScroll ==
    /\ sc_pc = "off"
    /\ sc_codes = <<>>
    /\ sc_scrolls = 0
    /\ sc_context = "none"
    /\ sc_clear = FALSE
    /\ sc_ret = {}

IdleApp ==
    /\ ap_running = <<>>
    /\ ap_accessor = 0
    /\ ap_requests = 0
    /\ ap_hook_runs = 0
    /\ ap_exited = FALSE

IdleJob ==
    /\ rj_kind = "none"
    /\ rj_markets = {}
    /\ rj_outcome = "none"

IdleBackfill ==
    /\ bf_upstream = <<>>
    /\ bf_range = <<>>
    /\ bf_count = 0

(***************************************************************************)
(* Specification of the streaming strategy over the daily-bar store        *)
(***************************************************************************)
InitStrategy ==
    /\ last_op = "init"
    /\ daily_index = {}
    /\ daily_client \in BOOLEAN
    /\ IdleStrategy
    /\ IdleProcess
    /\ IdleCollect
    /\ IdleSched
    /\ IdleHttp
    /\ IdleBasic
    /\ IdleService
    /\ IdleRequest
    /\ IdleTask
    /\ IdleRealtime
    /\ IdleDelete
    /\ IdleSignal
    /\ IdleWorker
    /\ IdleLock
    /\ IdleSingleton
    /\ IdleRetry
    /\ IdleSetup
    /\ IdleScroll
    /\ IdleApp
    /\ IdleJob
    /\ IdleBackfill

\* DailyDataStorage.save_daily_data of a one-record list on a live client
SaveDailyRecord ==
    \E data \in DailyRecords :
        /\ daily_client
        /\ last_op' = "save_daily_data"
        /\ daily_index' = BulkIndexDaily(daily_index, <<data>>)
        /\ UNCHANGED <<daily_client, strategyVars, OutsideStrategy>>

\* StockDataProcessor.process_element
ProcessElement ==
    \E q \in Quotes :
        LET strategy_result == execute_nine_turn_strategy(daily_index, daily_client, q)
        IN  /\ last_op' = "process_element"
            /\ quote' = q
            /\ strategy_out' = strategy_result
            /\ strategy_index' =
                   IF strategy_result = None THEN strategy_index
                   ELSE IndexDoc(strategy_index,
                                 <<strategy_result.date, strategy_result.stock_code>>,
                                 strategy_result)
            \* the lookup is made once the quote passed the entry checks
            /\ lookback_data' =
                   IF q.stock_code = "" \/ q.date = NoDate \/ q.close_price <= 0
                   THEN <<>>
                   ELSE get_historical_data(daily_index, daily_client, q.stock_code,
                                            q.date, LookbackDays)
            /\ UNCHANGED <<dailyVars, OutsideStrategy>>

NextStrategy == SaveDailyRecord \/ ProcessElement

SpecStrategy == InitStrategy /\ [][NextStrategy]_vars

\* the records of symbol s dated before d that are among the LookbackDays
\* most recent ones
LookedUpPrior(s, d) ==
    LET prior == {x.source : x \in {y \in daily_index :
                      y.source.stock_code = s /\ y.source.date < d}}
    IN  {r \in prior :
            Cardinality({o \in prior : o.date > r.date}) < LookbackDays}

EarliestClose(S) == (CHOOSE r \in S : \A o \in S : r.date <= o.date).close_price

\* C1: for a quote (s, d, p > 0) processed while the daily-bar store holds a
\* record of s dated before d, a signal is emitted if and only if p exceeds
\* compare, the (positive) close of the earliest of the up-to-4 looked-up
\* prior records, and the signal carries price_diff = p - compare
\* (compare 1000: close 1050 gives price_diff 50 and price_diff_percent 500,
\* closes 950 and 1000 give no signal).
C1_SignalIffAboveCompare ==
    (/\ last_op = "process_element"
     /\ daily_client
     /\ quote.stock_code # "" /\ quote.date # NoDate /\ quote.close_price > 0
     /\ LookedUpPrior(quote.stock_code, quote.date) # {}
     /\ EarliestClose(LookedUpPrior(quote.stock_code, quote.date)) > 0)
    => LET compare == EarliestClose(LookedUpPrior(quote.stock_code, quote.date))
       IN  /\ (strategy_out # None) <=> (quote.close_price > compare)
           /\ strategy_out # None =>
                  /\ strategy_out.price_diff = quote.close_price - compare
                  /\ (compare = 1000 /\ quote.close_price = 1050 =>
                         /\ strategy_out.price_diff = 50
                         /\ strategy_out.price_diff_percent = 500)

SignalPricesOrdered(signal) ==
    /\ signal.current_price > signal.compare_price
    /\ signal.compare_price > 0

RECURSIVE AscendingByDate(_)
AscendingByDate(S) ==
    IF S = {} THEN <<>>
    ELSE LET first == CHOOSE r \in S : \A o \in S : r.date <= o.date
         IN  <<first>> \o AscendingByDate(S \ {first})

\* C27: for a quote of symbol s and date d that passed the entry checks,
\* processed over a live store, the lookback records are the (up to)
\* LookbackDays most recent daily bars of s dated strictly before d, in
\* ascending date order, so that the compare price is the close of the
\* earliest of them.  It fails as soon as one prior bar is on file: the
\* lookup returns no records.
C27_LookbackRecords ==
    (/\ last_op = "process_element"
     /\ daily_client
     /\ quote.stock_code # "" /\ quote.date # NoDate /\ quote.close_price > 0)
    => lookback_data = AscendingByDate(LookedUpPrior(quote.stock_code, quote.date))

(***************************************************************************)
(* HistoryDataCollector.process_history_data                               *)
(***************************************************************************)
MaxRows == 3

\* a raw close is a decimal with two fractional digits, written here as its
\* number of hundredths; NaN is a missing value, Bad a value float() rejects
NaN == -1
Bad == -2
RawCloses == {1000, 1050, 980, NaN, Bad}
RawRows == [date : Days, close : RawCloses]
\* closes used in one-row frames only: one the float product falls short of,
\* one it reproduces
ProbeCloses == {29, 1234}

\* the two-digit decimals c below 11.01 for which the double float(c) * 100
\* lies just under the integer c x 100, so that int() truncates to one less
FloatProductBelow ==
    {29, 57, 58, 113, 114, 115, 116, 201, 203, 205, 207, 226, 228, 230, 232,
     251, 253, 255, 402, 406, 410, 414, 427, 431, 435, 439, 452, 456, 460,
     464, 477, 481, 485, 489, 502, 506, 510, 803, 804, 812, 820, 828, 829,
     837, 845, 853, 854, 862, 870, 878, 879, 887, 895, 903, 904, 912, 920,
     928, 929, 937, 945, 953, 954, 962, 970, 978, 979, 987, 995, 1003, 1004,
     1012, 1020}

\* int(float(value) * 100) if pd.notna(value) else 0
ScaledInt(value) ==
    IF value = NaN THEN 0
    ELSE IF value \in FloatProductBelow THEN value - 1 ELSE value

IsSortedByDate(rows) ==
    \A i \in 1..(Len(rows) - 1) : rows[i].date <= rows[i + 1].date

Bijections(n) ==
    {f \in [1..n -> 1..n] : \A i, j \in 1..n : f[i] = f[j] => i = j}

\* a process_history_data that iterates the rows in the order supplied
sort_values_unsorted(rows) == {rows}

\* df.sort_values on the date column: the rows in ascending date order; rows of equal
\* date come in an order the sort does not promise
sort_values(rows) ==
    {s \in {[i \in 1..Len(rows) |-> rows[f[i]]] : f \in Bijections(Len(rows))} :
        IsSortedByDate(s)}

\* the loop of process_history_data over the sorted rows; a row whose
\* conversion raises is skipped and leaves prev_close as it was
RECURSIVE ProcessRows(_, _, _, _)
ProcessRows(rows, stock_code, prev_close, acc) ==
    IF rows = <<>> THEN acc
    ELSE LET row == Head(rows)
         IN  IF row.close = Bad
             THEN ProcessRows(Tail(rows), stock_code, prev_close, acc)
             ELSE LET data_item == [stock_code |-> stock_code,
                                    date |-> row.date,
                                    close_price |-> ScaledInt(row.close),
                                    prev_close_price |-> prev_close]
                  IN  ProcessRows(Tail(rows), stock_code, data_item.close_price,
                                  Append(acc, data_item))

\* the possible results of process_history_data(df, stock_code, market_type)
process_history_data(rows, stock_code) ==
    IF rows = <<>> THEN {<<>>}
    ELSE {ProcessRows(sorted, stock_code, 0, <<>>) : sorted \in sort_values(rows)}

SeqsUpTo(S, n) == UNION {[1..k -> S] : k \in 0..n}

InitProcess ==
    /\ last_op = "init"
    /\ IdleDaily
    /\ IdleStrategy
    /\ df \in SeqsUpTo(RawRows, MaxRows)
               \cup {<<[date |-> 1, close |-> c]>> : c \in ProbeCloses}
    /\ processed_data = <<>>
    /\ IdleCollect
    /\ IdleSched
    /\ IdleHttp
    /\ IdleBasic
    /\ IdleService
    /\ IdleRequest
    /\ IdleTask
    /\ IdleRealtime
    /\ IdleDelete
    /\ IdleSignal
    /\ IdleWorker
    /\ IdleLock
    /\ IdleSingleton
    /\ IdleRetry
    /\ IdleSetup
    /\ IdleScroll
    /\ IdleApp
    /\ IdleJob
    /\ IdleBackfill

ProcessHistoryData ==
    /\ last_op = "init"
    /\ last_op' = "process_history_data"
    /\ processed_data' \in process_history_data(df, "000001")
    /\ UNCHANGED <<df, OutsideProcess>>

NextProcess == ProcessHistoryData

SpecProcess == InitProcess /\ [][NextProcess]_vars

\* C2: process_history_data emits the records in ascending date order, the
\* first emitted record has prev_close_price 0 and every later record has
\* prev_close_price equal to the close_price of the record emitted just
\* before it (closes 10.00, 10.50, 9.80 give 0, 1000, 1050).
C2_PrevCloseChain ==
    last_op = "process_history_data" =>
        /\ \A i \in 1..(Len(processed_data) - 1) :
               processed_data[i].date <= processed_data[i + 1].date
        /\ Len(processed_data) > 0 => processed_data[1].prev_close_price = 0
        /\ \A i \in 2..Len(processed_data) :
               processed_data[i].prev_close_price = processed_data[i - 1].close_price
        /\ (\E f \in Bijections(3) :
               /\ Len(df) = 3
               /\ [i \in 1..3 |-> df[f[i]]] =
                      <<[date |-> 1, close |-> 1000], [date |-> 2, close |-> 1050],
                        [date |-> 3, close |-> 980]>>)
           => [i \in 1..3 |-> processed_data[i].prev_close_price] = <<0, 1000, 1050>>

\* rows supplied out of date order, all converted, with three different closes
C2_Witness ==
    /\ last_op = "process_history_data"
    /\ Len(df) = 3 /\ Len(processed_data) = 3
    /\ df[1].date > df[2].date
    /\ processed_data[2].prev_close_price = 1000
    /\ processed_data[3].prev_close_price = 1050

(***************************************************************************)
(* HistoryDataCollector.get_stock_history_data and                         *)
(* collect_history_data_by_codes                                           *)
(***************************************************************************)
MaxCodes == 3
MaxRetries == 3

\* what one call of the upstream endpoint does: it returns the rows of a
\* frame (possibly none), or raises
Raises == <<[date |-> 0, close |-> 0]>>
UpstreamFrames ==
    {<<[date |-> 2, close |-> 1050], [date |-> 1, close |-> 1000]>>,
     <<[date |-> 2, close |-> 980]>>,
     <<[date |-> 3, close |-> Bad]>>}
UpstreamResponses == UpstreamFrames \cup {<<>>, Raises}

\* the retry loop of get_stock_history_data over the responses the upstream
\* gives to successive attempts; <<>> stands for the None it returns when it
\* gives up.  An empty frame ends the loop at once, an exception is retried
\* until max_retries attempts have been made.
RECURSIVE get_stock_history_data(_, _, _)
get_stock_history_data(responses, attempt, max_retries) ==
    IF attempt >= max_retries THEN <<>>
    ELSE LET response == responses[attempt + 1]
         IN  IF response = Raises
             THEN IF attempt < max_retries - 1
                  THEN get_stock_history_data(responses, attempt + 1, max_retries)
                  ELSE <<>>
             ELSE response

\* the outcomes of DailyDataStorage().save_daily_data(data_list): the value
\* returned and the index afterwards.  Without a client nothing is written;
\* a bulk request that raises may have written any part of the batch; a
\* failing refresh comes after everything was written.
SubSeqOf(data_list, keep) ==
    LET F[i \in 0..Len(data_list)] ==
            IF i = 0 THEN <<>>
            ELSE IF i \in keep THEN Append(F[i - 1], data_list[i]) ELSE F[i - 1]
    IN  F[Len(data_list)]

save_daily_data(index, data_list) ==
    {[ret |-> FALSE, index |-> index]}
    \cup (IF data_list = <<>>
          THEN {[ret |-> TRUE, index |-> index]}
          ELSE {[ret |-> TRUE, index |-> BulkIndexDaily(index, data_list)],
                [ret |-> FALSE, index |-> BulkIndexDaily(index, data_list)]}
               \cup {[ret |-> FALSE,
                      index |-> BulkIndexDaily(index, SubSeqOf(data_list, keep))] :
                         keep \in SUBSET (1..Len(data_list))})

InitCollect ==
    /\ last_op = "init"
    /\ IdleDaily
    /\ IdleStrategy
    /\ IdleProcess
    /\ IdleCollect
    /\ IdleSched
    /\ IdleHttp
    /\ IdleBasic
    /\ IdleService
    /\ IdleRequest
    /\ IdleTask
    /\ IdleRealtime
    /\ IdleDelete
    /\ IdleSignal
    /\ IdleWorker
    /\ IdleLock
    /\ IdleSingleton
    /\ IdleRetry
    /\ IdleSetup
    /\ IdleScroll
    /\ IdleApp
    /\ IdleJob
    /\ IdleBackfill

\* i // batch_size + 1 for the k-th code of the list
BatchOf(k, size) == (k - 1) \div size + 1

\* a fetch of one code with the number of records it added to the batch, or
\* a save of a batch with the number of records handed over
CollectEvent(op, batch, n) == [op |-> op, batch |-> batch, n |-> n]

\* entry of collect_history_data_by_codes up to the first batch
CollectStart ==
    \E codes \in SeqsUpTo(StockCodes, MaxCodes), size \in 1..2 :
        /\ hc_pc = "idle"
        /\ last_op' = "collect_history_data_by_codes"
        /\ stock_codes' = codes
        /\ batch_size' = size
        /\ IF codes = <<>>
           THEN /\ hc_result' = [success |-> 0, failed |-> 0, total |-> 0]
                /\ hc_pc' = "done"
                /\ UNCHANGED <<total_count, hc_k>>
           ELSE /\ total_count' = Len(codes)
                /\ hc_k' = 1
                /\ hc_pc' = "fetch"
                /\ UNCHANGED hc_result
        /\ hc_events' = <<>>
        /\ UNCHANGED <<batch_data, success_count, failed_count, fetch_log, save_log,
                       dailyVars, processVars, OutsideCollect>>

\* one iteration of the inner loop: fetch and process one code
CollectFetch ==
    \E fetched \in {get_stock_history_data(responses, 0, MaxRetries) :
                        responses \in [1..MaxRetries -> UpstreamResponses]} :
        LET end_of_batch == hc_k % batch_size = 0 \/ hc_k = total_count
        IN  /\ hc_pc = "fetch"
            /\ last_op' = "fetch"
            /\ df' = fetched
            /\ fetch_log' = Append(fetch_log, fetched # <<>>)
            /\ IF fetched # <<>>
               THEN /\ processed_data' \in process_history_data(fetched, stock_codes[hc_k])
                    /\ batch_data' = batch_data \o processed_data'
                    /\ success_count' = success_count + 1
                    /\ UNCHANGED failed_count
               ELSE /\ failed_count' = failed_count + 1
                    /\ UNCHANGED <<processed_data, batch_data, success_count>>
            /\ hc_events' = Append(hc_events,
                                   CollectEvent("fetch", BatchOf(hc_k, batch_size),
                                                Len(batch_data') - Len(batch_data)))
            /\ IF end_of_batch
               THEN hc_pc' = "flush" /\ UNCHANGED hc_k
               ELSE hc_k' = hc_k + 1 /\ UNCHANGED hc_pc
            /\ UNCHANGED <<stock_codes, batch_size, total_count, save_log, hc_result,
                           dailyVars, OutsideCollect>>

\* a flush that takes a failed save back out of the success tally
CollectFlushCountsSave ==
    /\ hc_pc = "flush"
    /\ last_op' = "flush"
    /\ IF batch_data # <<>>
       THEN \E outcome \in save_daily_data(daily_index, batch_data) :
                /\ daily_index' = outcome.index
                /\ save_log' = Append(save_log, outcome.ret)
                /\ hc_events' = Append(hc_events,
                                       CollectEvent("save", BatchOf(hc_k, batch_size),
                                                    Len(batch_data)))
                /\ IF outcome.ret
                   THEN UNCHANGED <<success_count, failed_count>>
                   ELSE /\ success_count' = success_count - 1
                        /\ failed_count' = failed_count + 1
       ELSE UNCHANGED <<daily_index, save_log, hc_events, success_count, failed_count>>
    /\ batch_data' = <<>>
    /\ IF hc_k = total_count
       THEN hc_pc' = "return" /\ UNCHANGED hc_k
       ELSE hc_pc' = "fetch" /\ hc_k' = hc_k + 1
    /\ UNCHANGED <<stock_codes, batch_size, total_count,
                   fetch_log, hc_result, daily_client, processVars, OutsideCollect>>

\* a loop that keeps gathering and saves once, after the last batch
CollectFlushAtEnd ==
    /\ hc_pc = "flush"
    /\ last_op' = "flush"
    /\ IF batch_data # <<>> /\ hc_k = total_count
       THEN \E outcome \in save_daily_data(daily_index, batch_data) :
                /\ daily_index' = outcome.index
                /\ save_log' = Append(save_log, outcome.ret)
                /\ hc_events' = Append(hc_events,
                                       CollectEvent("save", BatchOf(hc_k, batch_size),
                                                    Len(batch_data)))
                /\ batch_data' = <<>>
       ELSE UNCHANGED <<daily_index, save_log, hc_events, batch_data>>
    /\ IF hc_k = total_count
       THEN hc_pc' = "return" /\ UNCHANGED hc_k
       ELSE hc_pc' = "fetch" /\ hc_k' = hc_k + 1
    /\ UNCHANGED <<stock_codes, batch_size, success_count, failed_count, total_count,
                   fetch_log, hc_result, daily_client, processVars, OutsideCollect>>

\* the end of one batch: save what it gathered, then go on or leave the loop
CollectFlush ==
    /\ hc_pc = "flush"
    /\ last_op' = "flush"
    /\ IF batch_data # <<>>
       THEN \E outcome \in save_daily_data(daily_index, batch_data) :
                /\ daily_index' = outcome.index
                /\ save_log' = Append(save_log, outcome.ret)
                /\ hc_events' = Append(hc_events,
                                       CollectEvent("save", BatchOf(hc_k, batch_size),
                                                    Len(batch_data)))
       ELSE UNCHANGED <<daily_index, save_log, hc_events>>
    /\ batch_data' = <<>>
    /\ IF hc_k = total_count
       THEN hc_pc' = "return" /\ UNCHANGED hc_k
       ELSE hc_pc' = "fetch" /\ hc_k' = hc_k + 1
    /\ UNCHANGED <<stock_codes, batch_size, success_count, failed_count, total_count,
                   fetch_log, hc_result, daily_client, processVars, OutsideCollect>>

CollectReturn ==
    /\ hc_pc = "return"
    /\ last_op' = "return"
    /\ hc_result' = [success |-> success_count, failed |-> failed_count,
                     total |-> total_count]
    /\ hc_pc' = "done"
    /\ UNCHANGED <<stock_codes, batch_size, hc_k, batch_data, success_count,
                   failed_count, total_count, fetch_log, save_log, hc_events,
                   dailyVars, processVars, OutsideCollect>>

NextCollect == CollectStart \/ CollectFetch \/ CollectFlush \/ CollectReturn

SpecCollect == InitCollect /\ [][NextCollect]_vars

CountTrue(log) == Cardinality({i \in 1..Len(log) : log[i]})

\* C3: when collect_history_data_by_codes returns for a non-empty code list,
\* total is the number of codes, success the number of codes whose fetch
\* returned rows, failed the number whose fetch returned nothing, and
\* success + failed = total, whatever the batch saves returned
\* (3 codes, 2 fetched and 1 empty: {total 3, success 2, failed 1}).
C3_TallyCountsFetches ==
    (hc_pc = "done" /\ stock_codes # <<>>) =>
        /\ hc_result.total = Len(stock_codes)
        /\ hc_result.success = CountTrue(fetch_log)
        /\ hc_result.failed = Len(fetch_log) - CountTrue(fetch_log)
        /\ Len(fetch_log) = Len(stock_codes)
        /\ hc_result.success + hc_result.failed = hc_result.total

\* three codes, two fetched and one empty, with a batch save that failed
C3_Witness ==
    /\ hc_pc = "done"
    /\ Len(stock_codes) = 3
    /\ hc_result = [success |-> 2, failed |-> 1, total |-> 3]
    /\ \E i \in 1..Len(save_log) : ~save_log[i]
    /\ \E i \in 1..Len(save_log) : save_log[i]

FetchesOf(batch) ==
    {i \in 1..Len(hc_events) : hc_events[i].op = "fetch" /\ hc_events[i].batch = batch}

SavesOf(batch) ==
    {i \in 1..Len(hc_events) : hc_events[i].op = "save" /\ hc_events[i].batch = batch}

\* the number of records the fetches of one batch gathered
RECURSIVE RecordsOf(_)
RecordsOf(I) ==
    IF I = {} THEN 0
    ELSE LET i == CHOOSE x \in I : TRUE
         IN  hc_events[i].n + RecordsOf(I \ {i})

BatchesFetched == {hc_events[i].batch : i \in 1..Len(hc_events)}

\* the saves come in batch order: when a code of a batch is fetched, each
\* earlier batch that gathered records has been saved once, with those
\* records, after its own fetches; a batch that gathered nothing is not
\* saved
SavedBeforeNextBatch ==
    /\ \A b \in BatchesFetched :
           /\ Cardinality(SavesOf(b)) <= 1
           /\ \A j \in SavesOf(b) :
                  /\ hc_events[j].n = RecordsOf(FetchesOf(b)) /\ hc_events[j].n > 0
                  /\ \A i \in FetchesOf(b) : i < j
    /\ \A c \in BatchesFetched :
           \A b \in 1..(c - 1) :
               RecordsOf(FetchesOf(b)) > 0 =>
                   \E j \in SavesOf(b) : \A i \in FetchesOf(c) : j < i
    /\ hc_pc \in {"return", "done"} =>
           \A b \in BatchesFetched :
               RecordsOf(FetchesOf(b)) > 0 => SavesOf(b) # {}

\* C30: in a backfill the records of batch k are handed to the daily-bar
\* save before any code of batch k + 1 is fetched, every batch that gathered
\* records is saved exactly once, and a save that fails leaves every
\* document written by an earlier batch in the daily-bar index.
C30_BatchFlush ==
    [][last_op' \in {"fetch", "flush", "return"} =>
          /\ SavedBeforeNextBatch'
          /\ \A d \in daily_index : \E e \in daily_index' : e.id = d.id]_vars

\* three codes in batches of two: the first batch was saved, the save of
\* the second failed, and what the first wrote is on file
C30_Witness ==
    /\ hc_pc = "done"
    /\ Len(stock_codes) = 3 /\ batch_size = 2
    /\ save_log = <<TRUE, FALSE>>
    /\ Cardinality(SavesOf(1)) = 1 /\ Cardinality(SavesOf(2)) = 1
    /\ \E d \in daily_index : d.source.stock_code = stock_codes[1]

(***************************************************************************)
(* SchedulerService: the job registry of its APScheduler and the task      *)
(* routes of the scheduler controller                                      *)
(***************************************************************************)
TaskIds == {"t1", "realtime_stock_data"}
TaskNames == {"A", "B"}

\* a schedule_time string after split(':') and int(): the sequence of its
\* parts, NotANumber for a part int() rejects; <<>> is a missing or empty
\* string
NotANumber == -1
ScheduleTimes == {<<>>, <<9, 10>>, <<25, 0>>, <<NotANumber, 0>>}
\* interval_seconds; 0 also stands for a missing value
IntervalSeconds == {0, 60}

HasJob(registry, job_id) == \E i \in 1..Len(registry) : registry[i].id = job_id

\* scheduler.get_job: the first job registered under the id
get_job(registry, job_id) ==
    IF HasJob(registry, job_id)
    THEN registry[CHOOSE i \in 1..Len(registry) :
                      /\ registry[i].id = job_id
                      /\ \A j \in 1..(i - 1) : registry[j].id # job_id]
    ELSE None

\* scheduler.remove_job: drops the first job registered under the id and
\* raises JobLookupError when there is none
aps_remove_job(registry, job_id) ==
    IF ~HasJob(registry, job_id) THEN [raised |-> TRUE, jobs |-> registry]
    ELSE LET i == CHOOSE k \in 1..Len(registry) :
                      /\ registry[k].id = job_id
                      /\ \A j \in 1..(k - 1) : registry[j].id # job_id
         IN  [raised |-> FALSE,
              jobs |-> SubSeq(registry, 1, i - 1) \o SubSeq(registry, i + 1, Len(registry))]

\* scheduler.add_job: a stopped scheduler queues the job without looking at
\* its id; a running one raises ConflictingIdError for an id it holds
aps_add_job(registry, running, job) ==
    IF running /\ HasJob(registry, job.id)
    THEN [raised |-> TRUE, jobs |-> registry]
    ELSE [raised |-> FALSE, jobs |-> Append(registry, job)]

ValidCron(parts) ==
    /\ Len(parts) = 2
    /\ parts[1] \in 0..23
    /\ parts[2] \in 0..59

\* an add_task that installs the new job without removing the old one
add_task_keeps_old(registry, running, task_id, name, schedule_time, interval_seconds) ==
    IF schedule_time # <<>>
    THEN IF ~ValidCron(schedule_time) THEN [ret |-> FALSE, jobs |-> registry]
         ELSE LET added == aps_add_job(registry, running,
                               [id |-> task_id, name |-> name,
                                trigger |-> [kind |-> "cron", hour |-> schedule_time[1],
                                             minute |-> schedule_time[2]]])
              IN  [ret |-> ~added.raised, jobs |-> added.jobs]
    ELSE IF interval_seconds # 0
    THEN LET added == aps_add_job(registry, running,
                          [id |-> task_id, name |-> name,
                           trigger |-> [kind |-> "interval",
                                        seconds |-> interval_seconds]])
         IN  [ret |-> ~added.raised, jobs |-> added.jobs]
    ELSE [ret |-> FALSE, jobs |-> registry]

\* SchedulerService.add_task: the value returned and the registry afterwards
add_task(registry, running, task_id, name, schedule_time, interval_seconds) ==
    LET cleared == IF get_job(registry, task_id) # None
                   THEN aps_remove_job(registry, task_id).jobs
                   ELSE registry
    IN  IF schedule_time # <<>>
        THEN \* hour, minute = map(int, schedule_time.split(':')) and the cron
             \* trigger's range check raise ValueError, caught at the end
             IF ~ValidCron(schedule_time) THEN [ret |-> FALSE, jobs |-> cleared]
             ELSE LET added == aps_add_job(cleared, running,
                                   [id |-> task_id, name |-> name,
                                    trigger |-> [kind |-> "cron",
                                                 hour |-> schedule_time[1],
                                                 minute |-> schedule_time[2]]])
                  IN  [ret |-> ~added.raised, jobs |-> added.jobs]
        ELSE IF interval_seconds # 0
        THEN LET added == aps_add_job(cleared, running,
                              [id |-> task_id, name |-> name,
                               trigger |-> [kind |-> "interval",
                                            seconds |-> interval_seconds]])
             IN  [ret |-> ~added.raised, jobs |-> added.jobs]
        ELSE [ret |-> FALSE, jobs |-> cleared]

RealtimeJob ==
    [id |-> "realtime_stock_data", name |-> "realtime collection",
     trigger |-> [kind |-> "interval", seconds |-> 300]]

\* job.next_run_time as the registration methods and get_task_status read
\* it: a job queued in a stopped scheduler has no such attribute and the
\* read raises AttributeError
next_run_time_raises(running) == ~running

\* SchedulerService.add_realtime_job: raised tells whether it re-raised,
\* either what add_job raised or the AttributeError of building the result
add_realtime_job(registry, running) ==
    LET cleared == IF get_job(registry, RealtimeJob.id) # None
                   THEN aps_remove_job(registry, RealtimeJob.id).jobs
                   ELSE registry
        added == aps_add_job(cleared, running, RealtimeJob)
    IN  [raised |-> added.raised \/ next_run_time_raises(running),
         jobs |-> added.jobs]

\* the id add_history_job builds from its dates and the clock's second;
\* calls with the same dates within one second build the same id
HistoryJobIds == {"history_1"}
MaxHistoryJobs == 1

HistoryJobs(registry) ==
    {i \in 1..Len(registry) : registry[i].id \in HistoryJobIds}

\* SchedulerService.add_history_job
add_history_job(registry, running, job_id, execute_immediately) ==
    LET job == [id |-> job_id, name |-> "history collection",
                trigger |-> IF execute_immediately
                            THEN [kind |-> "date"]
                            ELSE [kind |-> "cron", hour |-> 9, minute |-> 0]]
        added == aps_add_job(registry, running, job)
    IN  [raised |-> added.raised \/ next_run_time_raises(running),
         jobs |-> added.jobs]

\* SchedulerService.add_stock_history_task
add_stock_history_task(registry, running, task_id, schedule_time) ==
    add_task(registry, running, task_id, "history collection", schedule_time, 0)

\* SchedulerService.add_stock_realtime_task
add_stock_realtime_task(registry, running, task_id, interval_seconds) ==
    add_task(registry, running, task_id, "realtime collection", <<>>,
             interval_seconds)

\* SchedulerService.remove_job
remove_job(registry, job_id) ==
    LET removed == aps_remove_job(registry, job_id)
    IN  [ret |-> ~removed.raised, jobs |-> removed.jobs]

\* SchedulerService.get_task_status: None also when reading next_run_time
\* raised
get_task_status(registry, running, task_id) ==
    IF get_job(registry, task_id) = None THEN None
    ELSE IF next_run_time_raises(running) THEN None
    ELSE get_job(registry, task_id)

\* the methods SchedulerService defines
SchedulerServiceMethods ==
    {"init_app", "_get_stock_scheduler", "start_scheduler", "stop_scheduler",
     "get_scheduler_status", "run_once", "add_history_job", "add_realtime_job",
     "remove_job", "pause_job", "resume_job", "update_schedule_time", "add_task",
     "remove_task", "get_task_status", "list_tasks", "add_stock_history_task",
     "add_stock_realtime_task"}

\* initialize_app, the hook create_app registers with app.before_request:
\* the request is answered by the route unless the hook raises, and then by
\* the 500 handler
before_request_raises(auto_start) ==
    auto_start /\ "start" \notin SchedulerServiceMethods

ServerError == [status |-> 500, success |-> FALSE]

InitSched ==
    /\ last_op = "init"
    /\ IdleDaily
    /\ IdleStrategy
    /\ IdleProcess
    /\ IdleCollect
    /\ IdleSched
    /\ http_req = None
    /\ http_resp = None
    /\ auto_start_scheduler \in BOOLEAN
    /\ IdleBasic
    /\ IdleService
    /\ IdleRequest
    /\ IdleTask
    /\ IdleRealtime
    /\ IdleDelete
    /\ IdleSignal
    /\ IdleWorker
    /\ IdleLock
    /\ IdleSingleton
    /\ IdleRetry
    /\ IdleSetup
    /\ IdleScroll
    /\ IdleApp
    /\ IdleJob
    /\ IdleBackfill

AddTask ==
    \E task_id \in TaskIds, name \in TaskNames, schedule_time \in ScheduleTimes,
       interval_seconds \in IntervalSeconds :
        LET result == add_task(jobs, aps_running, task_id, name, schedule_time,
                               interval_seconds)
        IN  /\ last_op' = "add_task"
            /\ sched_call' = [task_id |-> task_id, name |-> name,
                              schedule_time |-> schedule_time,
                              interval_seconds |-> interval_seconds,
                              existed |-> HasJob(jobs, task_id)]
            /\ sched_ret' = result.ret
            /\ sched_raised' = FALSE
            /\ jobs' = result.jobs
            /\ http_req' = None
            /\ http_resp' = None
            /\ UNCHANGED <<aps_running, auto_start_scheduler, OutsideSched>>

AddRealtimeJob ==
    LET result == add_realtime_job(jobs, aps_running)
    IN  /\ last_op' = "add_realtime_job"
        /\ sched_call' = [task_id |-> RealtimeJob.id, name |-> RealtimeJob.name,
                          schedule_time |-> <<>>, interval_seconds |-> 300,
                          existed |-> HasJob(jobs, RealtimeJob.id)]
        /\ sched_ret' = ~result.raised
        /\ sched_raised' = result.raised
        /\ jobs' = result.jobs
        /\ http_req' = None
        /\ http_resp' = None
        /\ UNCHANGED <<aps_running, auto_start_scheduler, OutsideSched>>

RemoveJob ==
    \E job_id \in TaskIds :
        LET result == remove_job(jobs, job_id)
        IN  /\ last_op' = "remove_job"
            /\ sched_call' = [task_id |-> job_id]
            /\ sched_ret' = result.ret
            /\ sched_raised' = FALSE
            /\ jobs' = result.jobs
            /\ http_req' = None
            /\ http_resp' = None
            /\ UNCHANGED <<aps_running, auto_start_scheduler, OutsideSched>>

\* SchedulerService.start_scheduler: the queued jobs become scheduled ones
StartScheduler ==
    /\ last_op' = "start_scheduler"
    /\ sched_call' = None
    /\ sched_ret' = IF aps_running THEN "already_running" ELSE "started"
    /\ sched_raised' = FALSE
    /\ aps_running' = TRUE
    /\ http_req' = None
    /\ http_resp' = None
    /\ UNCHANGED <<jobs, auto_start_scheduler, OutsideSched>>

\* SchedulerService.stop_scheduler: shutting down the in-memory job store
\* drops its jobs
StopScheduler ==
    /\ last_op' = "stop_scheduler"
    /\ sched_call' = None
    /\ sched_ret' = IF aps_running THEN "stopped" ELSE "not_running"
    /\ sched_raised' = FALSE
    /\ aps_running' = FALSE
    /\ jobs' = IF aps_running THEN <<>> ELSE jobs
    /\ http_req' = None
    /\ http_resp' = None
    /\ UNCHANGED <<auto_start_scheduler, OutsideSched>>

\* GET /api/v1/scheduler/tasks/<task_id>
HttpGetTask ==
    \E task_id \in TaskIds :
        LET task_status == get_task_status(jobs, aps_running, task_id)
        IN  /\ last_op' = "http_get_task"
            /\ http_req' = [method |-> "GET", task_id |-> task_id]
            /\ http_resp' = IF before_request_raises(auto_start_scheduler)
                            THEN ServerError
                            ELSE IF task_status # None
                            THEN [status |-> 200, success |-> TRUE]
                            ELSE [status |-> 404, success |-> FALSE]
            /\ sched_call' = None
            /\ sched_ret' = None
            /\ sched_raised' = FALSE
            /\ UNCHANGED <<jobs, aps_running, auto_start_scheduler, OutsideSched>>

\* DELETE /api/v1/scheduler/tasks/<task_id>
HttpDeleteTask ==
    \E task_id \in TaskIds :
        LET result == remove_job(jobs, task_id)
        IN  /\ last_op' = "http_delete_task"
            /\ http_req' = [method |-> "DELETE", task_id |-> task_id]
            /\ IF before_request_raises(auto_start_scheduler)
               THEN http_resp' = ServerError /\ jobs' = jobs
               ELSE /\ http_resp' = IF result.ret
                                    THEN [status |-> 200, success |-> TRUE]
                                    ELSE [status |-> 404, success |-> FALSE]
                    /\ jobs' = result.jobs
            /\ sched_call' = None
            /\ sched_ret' = None
            /\ sched_raised' = FALSE
            /\ UNCHANGED <<aps_running, auto_start_scheduler, OutsideSched>>

\* add_history_job with the clock's second in the job id; no caller passes
\* execute_immediately, which defaults to True
AddHistoryJob ==
    \E job_id \in HistoryJobIds, execute_immediately \in {TRUE} :
        LET result == add_history_job(jobs, aps_running, job_id, execute_immediately)
        IN  /\ Cardinality(HistoryJobs(jobs)) < MaxHistoryJobs
            /\ last_op' = "add_history_job"
            /\ sched_call' = [task_id |-> job_id, name |-> "history collection",
                              schedule_time |-> <<>>, interval_seconds |-> 0,
                              existed |-> HasJob(jobs, job_id)]
            /\ sched_ret' = ~result.raised
            /\ sched_raised' = result.raised
            /\ jobs' = result.jobs
            /\ http_req' = None
            /\ http_resp' = None
            /\ UNCHANGED <<aps_running, auto_start_scheduler, OutsideSched>>

\* the running scheduler fires a job with a date trigger once and drops it
RunDateJob ==
    \E i \in 1..Len(jobs) :
        /\ aps_running
        /\ jobs[i].trigger.kind = "date"
        /\ last_op' = "run_date_job"
        /\ jobs' = SubSeq(jobs, 1, i - 1) \o SubSeq(jobs, i + 1, Len(jobs))
        /\ sched_call' = None
        /\ sched_ret' = None
        /\ sched_raised' = FALSE
        /\ http_req' = None
        /\ http_resp' = None
        /\ UNCHANGED <<aps_running, auto_start_scheduler, OutsideSched>>

AddStockHistoryTask ==
    \E task_id \in TaskIds, schedule_time \in ScheduleTimes :
        LET result == add_stock_history_task(jobs, aps_running, task_id, schedule_time)
        IN  /\ last_op' = "add_stock_history_task"
            /\ sched_call' = [task_id |-> task_id, name |-> "history collection",
                              schedule_time |-> schedule_time,
                              interval_seconds |-> 0,
                              existed |-> HasJob(jobs, task_id)]
            /\ sched_ret' = result.ret
            /\ sched_raised' = FALSE
            /\ jobs' = result.jobs
            /\ http_req' = None
            /\ http_resp' = None
            /\ UNCHANGED <<aps_running, auto_start_scheduler, OutsideSched>>

AddStockRealtimeTask ==
    \E task_id \in TaskIds, interval_seconds \in {0, 300} :
        LET result == add_stock_realtime_task(jobs, aps_running, task_id,
                                              interval_seconds)
        IN  /\ last_op' = "add_stock_realtime_task"
            /\ sched_call' = [task_id |-> task_id, name |-> "realtime collection",
                              schedule_time |-> <<>>,
                              interval_seconds |-> interval_seconds,
                              existed |-> HasJob(jobs, task_id)]
            /\ sched_ret' = result.ret
            /\ sched_raised' = FALSE
            /\ jobs' = result.jobs
            /\ http_req' = None
            /\ http_resp' = None
            /\ UNCHANGED <<aps_running, auto_start_scheduler, OutsideSched>>

\* the parameters the two methods accept by keyword, and the keywords the
\* two POST routes pass; a keyword outside the parameters is a TypeError
add_history_job_params ==
    {"start_date", "end_date", "stock_codes", "adjust_flag", "execute_immediately"}
add_realtime_job_params == {}
add_history_task_kwargs ==
    {"job_id", "schedule_time", "start_date", "end_date", "stock_codes", "adjust_flag"}
add_realtime_task_kwargs == {"job_id", "interval_seconds"}
binds(kwargs, params) == kwargs \subseteq params

\* request bodies of the POST routes: not JSON by content type, JSON that
\* does not parse, an empty object, an object lacking a required field, and
\* an object with every required field
PostBodies == {"not_json", "malformed", "empty", "missing_field", "complete"}

Created == [status |-> 201, success |-> TRUE]
BadRequest == [status |-> 400, success |-> FALSE]

\* add_history_task under handle_exceptions: the response and the registry
add_history_task(registry, running, body, job_id) ==
    IF body = "not_json" THEN [resp |-> BadRequest, jobs |-> registry]
    ELSE IF body = "malformed" THEN [resp |-> ServerError, jobs |-> registry]
    ELSE IF body \in {"empty", "missing_field"}
    THEN [resp |-> BadRequest, jobs |-> registry]
    ELSE IF ~binds(add_history_task_kwargs, add_history_job_params)
    THEN [resp |-> ServerError, jobs |-> registry]
    ELSE LET result == add_history_job(registry, running, job_id, TRUE)
         IN  [resp |-> IF result.raised THEN ServerError ELSE Created,
              jobs |-> result.jobs]

\* add_realtime_task under handle_exceptions
add_realtime_task(registry, running, body) ==
    IF body = "not_json" THEN [resp |-> BadRequest, jobs |-> registry]
    ELSE IF body = "malformed" THEN [resp |-> ServerError, jobs |-> registry]
    ELSE IF body \in {"empty", "missing_field"}
    THEN [resp |-> BadRequest, jobs |-> registry]
    ELSE IF ~binds(add_realtime_task_kwargs, add_realtime_job_params)
    THEN [resp |-> ServerError, jobs |-> registry]
    ELSE LET result == add_realtime_job(registry, running)
         IN  [resp |-> IF result.raised THEN ServerError ELSE Created,
              jobs |-> result.jobs]

\* POST /api/v1/scheduler/tasks/history
HttpAddHistoryTask ==
    \E body \in PostBodies, task_id \in TaskIds, job_id \in HistoryJobIds :
        LET result == add_history_task(jobs, aps_running, body, job_id)
        IN  /\ body # "complete" => task_id = "t1"
            /\ last_op' = "http_add_history_task"
            /\ http_req' = [method |-> "POST", task_id |-> task_id, body |-> body]
            /\ IF before_request_raises(auto_start_scheduler)
               THEN http_resp' = ServerError /\ jobs' = jobs
               ELSE http_resp' = result.resp /\ jobs' = result.jobs
            /\ sched_call' = None
            /\ sched_ret' = None
            /\ sched_raised' = FALSE
            /\ UNCHANGED <<aps_running, auto_start_scheduler, OutsideSched>>

\* POST /api/v1/scheduler/tasks/realtime
HttpAddRealtimeTask ==
    \E body \in PostBodies, task_id \in TaskIds :
        LET result == add_realtime_task(jobs, aps_running, body)
        IN  /\ body # "complete" => task_id = "t1"
            /\ last_op' = "http_add_realtime_task"
            /\ http_req' = [method |-> "POST", task_id |-> task_id, body |-> body]
            /\ IF before_request_raises(auto_start_scheduler)
               THEN http_resp' = ServerError /\ jobs' = jobs
               ELSE http_resp' = result.resp /\ jobs' = result.jobs
            /\ sched_call' = None
            /\ sched_ret' = None
            /\ sched_raised' = FALSE
            /\ UNCHANGED <<aps_running, auto_start_scheduler, OutsideSched>>

NextSched ==
    \/ AddTask
    \/ AddRealtimeJob
    \/ AddHistoryJob
    \/ RunDateJob
    \/ AddStockHistoryTask
    \/ AddStockRealtimeTask
    \/ RemoveJob
    \/ StartScheduler
    \/ StopScheduler
    \/ HttpGetTask
    \/ HttpDeleteTask
    \/ HttpAddHistoryTask
    \/ HttpAddRealtimeTask

SpecSched == InitSched /\ [][NextSched]_vars

\* C35: an add_task call that fails because neither schedule_time nor
\* interval_seconds was supplied returns false and leaves the job registry
\* as it was, a job already registered under the same task_id included.
\* It fails: the job registered under the id is removed before the
\* arguments are looked at.
C35_FailedAddKeepsRegistry ==
    [][(/\ last_op' = "add_task"
        /\ sched_call'.schedule_time = <<>>
        /\ sched_call'.interval_seconds = 0) =>
            /\ sched_ret' = FALSE
            /\ jobs' = jobs]_vars

JobsWithId(registry, job_id) == {i \in 1..Len(registry) : registry[i].id = job_id}

ExpectedTrigger(call) ==
    IF call.schedule_time # <<>>
    THEN [kind |-> "cron", hour |-> call.schedule_time[1],
          minute |-> call.schedule_time[2]]
    ELSE [kind |-> "interval", seconds |-> call.interval_seconds]

\* C4: the job registry never holds two jobs with one id, and after a
\* registration through add_task or add_realtime_job exactly one job with
\* the registered id exists, carrying the trigger and the name of that
\* registration (also when a job was registered under the id before).
C4_OneJobPerId ==
    /\ \A job_id \in TaskIds : Cardinality(JobsWithId(jobs, job_id)) <= 1
    /\ (last_op \in {"add_task", "add_realtime_job"} /\ sched_ret = TRUE) =>
           /\ Cardinality(JobsWithId(jobs, sched_call.task_id)) = 1
           /\ get_job(jobs, sched_call.task_id) =
                  [id |-> sched_call.task_id, name |-> sched_call.name,
                   trigger |-> ExpectedTrigger(sched_call)]

\* a registration over an existing job that changed its name and its trigger
C4_Witness ==
    /\ last_op = "add_task"
    /\ sched_ret = TRUE
    /\ sched_call.existed
    /\ sched_call.task_id = "realtime_stock_data"
    /\ sched_call.name = "B"
    /\ sched_call.schedule_time = <<9, 10>>
    /\ Len(jobs) = 2

\* C8: a GET or DELETE of a task id the registry does not hold is answered
\* 404 with success = false and leaves the registry as it was; a DELETE of a
\* registered id is answered 200 and the id is absent afterwards.  It fails
\* where AUTO_START_SCHEDULER is true: initialize_app raises before the route
\* runs and the request is answered 500.
C8_TaskRoutes ==
    [][/\ (last_op' \in {"http_get_task", "http_delete_task"}
           /\ ~HasJob(jobs, http_req'.task_id))
          => (http_resp' = [status |-> 404, success |-> FALSE] /\ jobs' = jobs)
       /\ (last_op' = "http_delete_task" /\ HasJob(jobs, http_req'.task_id))
          => (http_resp'.status = 200 /\ ~HasJob(jobs', http_req'.task_id))]_vars

\* the same statement for the routes alone, with the hook returning
C8_TaskRoutesHookReturns ==
    [][~before_request_raises(auto_start_scheduler) =>
       /\ (last_op' \in {"http_get_task", "http_delete_task"}
           /\ ~HasJob(jobs, http_req'.task_id))
          => (http_resp' = [status |-> 404, success |-> FALSE] /\ jobs' = jobs)
       /\ (last_op' = "http_delete_task" /\ HasJob(jobs, http_req'.task_id))
          => (http_resp'.status = 200 /\ ~HasJob(jobs', http_req'.task_id))]_vars

\* C15: a POST to /tasks/history or /tasks/realtime with a body holding the
\* required fields registers a job under the caller's task_id and is answered
\* 201; every request that registers no job is answered 400.  It fails for
\* a complete body: the routes pass the keyword job_id, which neither
\* add_history_job nor add_realtime_job accepts, and the TypeError is
\* answered 500 with nothing registered.
C15_PostTaskRoutes ==
    [][last_op' \in {"http_add_history_task", "http_add_realtime_task"} =>
         IF http_req'.body = "complete"
         THEN http_resp' = Created /\ HasJob(jobs', http_req'.task_id)
         ELSE http_resp' = BadRequest /\ jobs' = jobs]_vars

\* C19: no registration operation of SchedulerService lets an exception
\* escape; a failed registration is a failure return value.  It fails for
\* add_history_job and add_realtime_job, whose handlers raise again what
\* they caught.
C19_NoEscape ==
    last_op \in {"add_task", "add_history_job", "add_realtime_job",
                 "add_stock_history_task", "add_stock_realtime_task"}
        => (~sched_raised /\ sched_ret \in BOOLEAN)

(***************************************************************************)
(* ElasticsearchStorage: the basic-snapshot index                          *)
(***************************************************************************)
MaxSnap == 2
BasicBatchSize == 100

\* stock_code of a snapshot; "" stands for a missing or empty code
BasicCodes == {"000001", "600000", ""}
BasicPrices == {1050, 2030}
\* the first symbol comes with both prices, the others with one
Snapshots ==
    [stock_code : {"000001"}, current_price : BasicPrices]
    \cup [stock_code : {"600000", ""}, current_price : {1050}]

\* ElasticsearchStorage._prepare_bulk_data
prepare_bulk_data(stock_data) ==
    LET F[i \in 0..Len(stock_data)] ==
            IF i = 0 THEN <<>>
            ELSE IF stock_data[i].stock_code = "" THEN F[i - 1]
            ELSE Append(F[i - 1], [id |-> stock_data[i].stock_code,
                                   source |-> stock_data[i]])
    IN  F[Len(stock_data)]

RECURSIVE BulkIndexBasic(_, _)
BulkIndexBasic(index, actions) ==
    IF actions = <<>> THEN index
    ELSE BulkIndexBasic(IndexDoc(index, Head(actions).id, Head(actions).source),
                        Tail(actions))

\* the batch loop of save_stock_data: a bulk call either indexes its whole
\* batch or raises after indexing some of it, and then the batch is counted
\* as failed and the loop goes on
RECURSIVE SaveBatches(_, _, _)
SaveBatches(index, bulk_data, error_count) ==
    IF bulk_data = <<>> THEN {[index |-> index, error_count |-> error_count]}
    ELSE LET n == Min(BasicBatchSize, Len(bulk_data))
             batch == SubSeq(bulk_data, 1, n)
             rest == SubSeq(bulk_data, n + 1, Len(bulk_data))
         IN  SaveBatches(BulkIndexBasic(index, batch), rest, error_count)
             \cup UNION {SaveBatches(BulkIndexBasic(index, SubSeqOf(batch, keep)),
                                     rest, error_count + Len(batch)) :
                             keep \in SUBSET (1..Len(batch))}

\* clear_index: delete_by_query removes everything, or raises having removed
\* some of it; save_stock_data does not look at the result
clear_index(index) == SUBSET index

\* a save_stock_data that clears the index whatever its flag says
save_stock_data_always_clears(index, client, stock_data, clear_before_save) ==
    IF ~client THEN {[ret |-> FALSE, index |-> index]}
    ELSE IF stock_data = <<>> THEN {[ret |-> TRUE, index |-> index]}
    ELSE {[ret |-> FALSE, index |-> index]}
         \cup UNION {
              IF prepare_bulk_data(stock_data) = <<>>
              THEN {[ret |-> TRUE, index |-> cleared]}
              ELSE UNION {{[ret |-> r.error_count = 0, index |-> r.index],
                           [ret |-> FALSE, index |-> r.index]} :
                             r \in SaveBatches(cleared, prepare_bulk_data(stock_data), 0)} :
              cleared \in clear_index(index)}

\* ElasticsearchStorage.save_stock_data: the values it can return and the
\* index each leaves behind
save_stock_data(index, client, stock_data, clear_before_save) ==
    IF ~client THEN {[ret |-> FALSE, index |-> index]}
    ELSE IF stock_data = <<>> THEN {[ret |-> TRUE, index |-> index]}
    ELSE \* _ensure_index_exists returned False
         {[ret |-> FALSE, index |-> index]}
         \cup UNION {
              IF prepare_bulk_data(stock_data) = <<>>
              THEN {[ret |-> TRUE, index |-> cleared]}
              ELSE \* the last step, indices.refresh, may raise
                   UNION {{[ret |-> r.error_count = 0, index |-> r.index],
                           [ret |-> FALSE, index |-> r.index]} :
                             r \in SaveBatches(cleared, prepare_bulk_data(stock_data), 0)} :
              cleared \in IF clear_before_save THEN clear_index(index) ELSE {index}}

InitBasic ==
    /\ last_op = "init"
    /\ IdleDaily
    /\ IdleStrategy
    /\ IdleProcess
    /\ IdleCollect
    /\ IdleSched
    /\ IdleHttp
    /\ basic_index = {}
    /\ basic_client \in BOOLEAN
    /\ save_call = None
    /\ save_ret = None
    /\ IdleService
    /\ IdleRequest
    /\ IdleTask
    /\ IdleRealtime
    /\ IdleDelete
    /\ IdleSignal
    /\ IdleWorker
    /\ IdleLock
    /\ IdleSingleton
    /\ IdleRetry
    /\ IdleSetup
    /\ IdleScroll
    /\ IdleApp
    /\ IdleJob
    /\ IdleBackfill

SaveStockData ==
    \E stock_data \in SeqsUpTo(Snapshots, MaxSnap), clear_before_save \in BOOLEAN :
        \E result \in save_stock_data(basic_index, basic_client, stock_data,
                                      clear_before_save) :
            /\ last_op' = "save_stock_data"
            /\ save_call' = [stock_data |-> stock_data,
                             clear_before_save |-> clear_before_save,
                             before |-> basic_index]
            /\ save_ret' = result.ret
            /\ basic_index' = result.index
            /\ UNCHANGED <<basic_client, OutsideBasic>>

\* ElasticsearchStorage.clear_index called on its own
ClearIndex ==
    /\ last_op' = "clear_index"
    /\ save_call' = None
    /\ IF ~basic_client
       THEN save_ret' = FALSE /\ basic_index' = basic_index
       ELSE \/ basic_index' = {} /\ save_ret' = TRUE
            \/ \E left \in clear_index(basic_index) :
                   basic_index' = left /\ save_ret' = FALSE
    /\ UNCHANGED <<basic_client, OutsideBasic>>

\* StockDataScheduler.collect_and_save_data on the records the snapshot
\* collector returned: the values it can return and the index each leaves
collect_and_save_data(index, client, stock_data) ==
    IF stock_data = <<>> THEN {[ret |-> FALSE, index |-> index]}
    ELSE save_stock_data(index, client, stock_data, TRUE)

CollectAndSaveData ==
    \E stock_data \in SeqsUpTo(Snapshots, MaxSnap) :
        \E result \in collect_and_save_data(basic_index, basic_client, stock_data) :
            /\ last_op' = "collect_and_save_data"
            /\ save_call' = [stock_data |-> stock_data,
                             clear_before_save |-> TRUE,
                             before |-> basic_index]
            /\ save_ret' = result.ret
            /\ basic_index' = result.index
            /\ UNCHANGED <<basic_client, OutsideBasic>>

NextBasic ==
    \/ SaveStockData
    \/ ClearIndex
    \/ CollectAndSaveData

SpecBasic == InitBasic /\ [][NextBasic]_vars

CodesOf(stock_data) == {stock_data[i].stock_code : i \in 1..Len(stock_data)}

LastFor(stock_data, code) ==
    stock_data[CHOOSE i \in 1..Len(stock_data) :
                   /\ stock_data[i].stock_code = code
                   /\ \A j \in (i + 1)..Len(stock_data) : stock_data[j].stock_code # code]

DocsOf(index, code) == {d \in index : d.id = code}

\* C5: the basic index never holds two documents for one stock_code; a
\* save_stock_data with clear_before_save = false leaves the documents of
\* every symbol outside its input as they were, and when it returns true
\* each symbol of its input has exactly one document, holding the values of
\* this save (also when a document of an earlier save was there).
C5_ResaveReplaces ==
    /\ \A code \in BasicCodes : Cardinality(DocsOf(basic_index, code)) <= 1
    /\ (last_op = "save_stock_data" /\ ~save_call.clear_before_save) =>
           /\ \A code \in BasicCodes \ CodesOf(save_call.stock_data) :
                  DocsOf(basic_index, code) = DocsOf(save_call.before, code)
           /\ save_ret = TRUE =>
                  \A code \in CodesOf(save_call.stock_data) \ {""} :
                      DocsOf(basic_index, code) =
                          {[id |-> code, source |-> LastFor(save_call.stock_data, code)]}

\* a symbol saved before is saved again with another price while another
\* symbol's document is in the index
C5_Witness ==
    /\ last_op = "save_stock_data"
    /\ save_ret = TRUE
    /\ save_call.stock_data = <<[stock_code |-> "000001", current_price |-> 2030]>>
    /\ ~save_call.clear_before_save
    /\ [id |-> "000001", source |-> [stock_code |-> "000001", current_price |-> 1050]]
           \in save_call.before
    /\ DocsOf(basic_index, "600000") # {}

\* C39: a snapshot job changes the basic index only when it has something
\* to write: with no records collect_and_save_data returns false and the
\* index is as it was, and a save with clear_before_save = true that
\* returns true having removed a document has written at least one record.
\* It fails for records that all lack a stock_code: the index is cleared
\* before they are dropped, and the save returns true having written none.
C39_ClearOnlyToWrite ==
    /\ (last_op = "collect_and_save_data" /\ save_call.stock_data = <<>>) =>
           /\ save_ret = FALSE
           /\ basic_index = save_call.before
    /\ (/\ last_op \in {"save_stock_data", "collect_and_save_data"}
        /\ save_call.clear_before_save
        /\ save_ret = TRUE
        /\ ~(save_call.before \subseteq basic_index)) =>
           \E d \in basic_index, i \in 1..Len(save_call.stock_data) :
               d.source = save_call.stock_data[i]

(***************************************************************************)
(* HistoryCollectRequest and RequestValidator                              *)
(***************************************************************************)
MaxCodeLen == 7

\* What a date argument can be.  kind "str": the text of the numbers y, m, d
\* joined by '-', each of m and d written with two digits (padded) or without
\* a leading zero; kind "text": a string that is not of that shape
\* ('2025/01/01'); kind "int": a value that is not a string (20250101).
DateYears == {2024, 2025}
DateMonths == {1, 2, 13}
DateDays == {1, 29, 30}
DateStrings ==
    [kind : {"str"}, y : DateYears, m : DateMonths, d : DateDays, padded : BOOLEAN]
OtherText == [kind |-> "text", y |-> 0, m |-> 0, d |-> 0, padded |-> FALSE]
NotAString == [kind |-> "int", y |-> 0, m |-> 0, d |-> 0, padded |-> FALSE]
DateInputs == DateStrings \cup {OtherText, NotAString}

IsLeap(y) == (y % 4 = 0 /\ y % 100 # 0) \/ y % 400 = 0

DaysIn(y, m) ==
    IF m = 2 THEN (IF IsLeap(y) THEN 29 ELSE 28)
    ELSE IF m \in {4, 6, 9, 11} THEN 30 ELSE 31

\* datetime.strptime(date_str, "%Y-%m-%d"): the day it parses to, or the
\* exception it raises; %m and %d take one or two digits
strptime(date_str) ==
    IF date_str.kind = "int" THEN [raised |-> "TypeError", day |-> 0]
    ELSE IF date_str.kind = "text" THEN [raised |-> "ValueError", day |-> 0]
    ELSE IF date_str.m \in 1..12 /\ date_str.d \in 1..DaysIn(date_str.y, date_str.m)
    THEN [raised |-> "none",
          day |-> date_str.y * 10000 + date_str.m * 100 + date_str.d]
    ELSE [raised |-> "ValueError", day |-> 0]

\* HistoryCollectRequest._is_valid_date: "raise" when strptime raised
\* something other than ValueError
is_valid_date(date_str) ==
    LET parsed == strptime(date_str)
    IN  IF parsed.raised = "none" THEN "true"
        ELSE IF parsed.raised = "ValueError" THEN "false"
        ELSE "raise"

\* a stock code is the sequence of its characters
Digits == {"0"}
CodeChars == Digits \cup {"A", "\n"}

\* re.match(r'^\d{6}$', code): six digits from the start, then the end of
\* the string or a newline that ends the string
is_valid_stock_code(code) ==
    /\ Len(code) >= 6
    /\ \A i \in 1..6 : code[i] \in Digits
    /\ \/ Len(code) = 6
       \/ Len(code) = 7 /\ code[7] = "\n"

\* stock_codes = None, told apart from every list of codes
NoCodes == <<<<"None">>>>

AdjustFlags == {"qfq", "hfq", "none", "bfq"}

\* a validate that does not compare the two dates
validate_unordered(start_date, end_date, codes, adjust_flag) ==
    IF is_valid_date(start_date) = "raise" THEN "TypeError"
    ELSE IF is_valid_date(start_date) = "false" THEN "ValueError"
    ELSE IF is_valid_date(end_date) = "raise" THEN "TypeError"
    ELSE IF is_valid_date(end_date) = "false" THEN "ValueError"
    ELSE IF adjust_flag \notin {"qfq", "hfq", "none"} THEN "ValueError"
    ELSE IF codes # NoCodes /\ codes # <<>>
            /\ \E i \in 1..Len(codes) : ~is_valid_stock_code(codes[i])
    THEN "ValueError"
    ELSE "none"

\* HistoryCollectRequest.validate: the exception it raises, "none" if it
\* returns
validate(start_date, end_date, codes, adjust_flag) ==
    IF is_valid_date(start_date) = "raise" THEN "TypeError"
    ELSE IF is_valid_date(start_date) = "false" THEN "ValueError"
    ELSE IF is_valid_date(end_date) = "raise" THEN "TypeError"
    ELSE IF is_valid_date(end_date) = "false" THEN "ValueError"
    ELSE IF strptime(start_date).day > strptime(end_date).day THEN "ValueError"
    ELSE IF adjust_flag \notin {"qfq", "hfq", "none"} THEN "ValueError"
    ELSE IF codes # NoCodes /\ codes # <<>>
            /\ \E i \in 1..Len(codes) : ~is_valid_stock_code(codes[i])
    THEN "ValueError"
    ELSE "none"

\* HistoryCollectRequest(...): the dataclass stores its arguments and
\* __post_init__ validates them
HistoryCollectRequest(start_date, end_date, codes, adjust_flag) ==
    LET raised == validate(start_date, end_date, codes, adjust_flag)
    IN  [raised |-> raised,
         request |-> IF raised = "none"
                     THEN [start_date |-> start_date, end_date |-> end_date,
                           stock_codes |-> codes, adjust_flag |-> adjust_flag]
                     ELSE None]

\* What a limit can be.  kind "int": the integer n; "bool": True for n = 1,
\* False for n = 0; "float": the float n.0; "str": the decimal text of n;
\* "text": a string that is not a number; "none": None.
LimitNumbers == {-1, 0, 1, 1000, 10000, 10001}
LimitValues ==
    [kind : {"int", "float", "str"}, n : LimitNumbers]
    \cup [kind : {"bool"}, n : {0, 1}]
    \cup [kind : {"text", "none"}, n : {0}]

\* a validate whose upper limit is one too low
stock_codes_validate_below(limit) ==
    IF limit.kind \notin {"int", "bool"} \/ limit.n <= 0 THEN "ValueError"
    ELSE IF limit.n >= 10000 THEN "ValueError"
    ELSE "none"

\* StockCodesRequest.validate: isinstance(limit, int) holds for an int and
\* for a bool, and the comparison is only reached for those
stock_codes_validate(limit) ==
    IF limit.kind \notin {"int", "bool"} \/ limit.n <= 0 THEN "ValueError"
    ELSE IF limit.n > 10000 THEN "ValueError"
    ELSE "none"

\* StockCodesRequest(limit=...)
StockCodesRequest(limit) ==
    [raised |-> stock_codes_validate(limit),
     request |-> IF stock_codes_validate(limit) = "none" THEN [limit |-> limit]
                 ELSE None]

\* int(limit): the integer it returns, or the exception it raises
int_of(limit) ==
    IF limit.kind \in {"int", "float", "str", "bool"}
    THEN [raised |-> "none", value |-> [kind |-> "int", n |-> limit.n]]
    ELSE IF limit.kind = "text" THEN [raised |-> "ValueError", value |-> limit]
    ELSE [raised |-> "TypeError", value |-> limit]

\* the query arguments of GET /stocks/codes: a limit string, or none
LimitAbsent == [kind |-> "absent", n |-> 0]
LimitArgs == [kind : {"str"}, n : LimitNumbers] \cup {[kind |-> "text", n |-> 0], LimitAbsent}

\* RequestValidator.validate_stock_codes_params
validate_stock_codes_params(arg) ==
    LET limit == IF arg = LimitAbsent THEN [kind |-> "int", n |-> 1000] ELSE arg
        converted == int_of(limit)
    IN  IF converted.raised # "none" THEN [raised |-> "ValueError", request |-> None]
        ELSE StockCodesRequest(converted.value)

LimitInputs == [limit : LimitValues] \cup [limit_arg : LimitArgs]

GoodDate == [kind |-> "str", y |-> 2025, m |-> 1, d |-> 1, padded |-> TRUE]

\* the constructions explored: every pair of dates and every flag with a
\* few code lists, and every code of up to MaxCodeLen characters with one
\* pair of dates
FewCodeLists == {NoCodes, <<>>, <<<<"0", "0", "0", "0", "0", "0">>>>}

CtorInputs ==
    [start_date : DateInputs, end_date : DateInputs, stock_codes : FewCodeLists,
     adjust_flag : AdjustFlags]
    \cup [start_date : {GoodDate}, end_date : {GoodDate},
          stock_codes : {<<code>> : code \in SeqsUpTo(CodeChars, MaxCodeLen)},
          adjust_flag : {"qfq"}]

InitRequest ==
    /\ last_op = "init"
    /\ IdleDaily
    /\ IdleStrategy
    /\ IdleProcess
    /\ IdleCollect
    /\ IdleSched
    /\ IdleHttp
    /\ IdleBasic
    /\ IdleService
    /\ ctor_args \in CtorInputs \cup LimitInputs
    /\ ctor_result = None
    /\ IdleTask
    /\ IdleRealtime
    /\ IdleDelete
    /\ IdleSignal
    /\ IdleWorker
    /\ IdleLock
    /\ IdleSingleton
    /\ IdleRetry
    /\ IdleSetup
    /\ IdleScroll
    /\ IdleApp
    /\ IdleJob
    /\ IdleBackfill

Construct ==
    /\ last_op = "init"
    /\ "start_date" \in DOMAIN ctor_args
    /\ last_op' = "HistoryCollectRequest"
    /\ ctor_result' = HistoryCollectRequest(ctor_args.start_date, ctor_args.end_date,
                                            ctor_args.stock_codes, ctor_args.adjust_flag)
    /\ UNCHANGED <<ctor_args, OutsideRequest>>

ConstructStockCodes ==
    /\ last_op = "init"
    /\ "limit" \in DOMAIN ctor_args
    /\ last_op' = "StockCodesRequest"
    /\ ctor_result' = StockCodesRequest(ctor_args.limit)
    /\ UNCHANGED <<ctor_args, OutsideRequest>>

ValidateStockCodesParams ==
    /\ last_op = "init"
    /\ "limit_arg" \in DOMAIN ctor_args
    /\ last_op' = "validate_stock_codes_params"
    /\ ctor_result' = validate_stock_codes_params(ctor_args.limit_arg)
    /\ UNCHANGED <<ctor_args, OutsideRequest>>

NextRequest ==
    \/ Construct
    \/ ConstructStockCodes
    \/ ValidateStockCodesParams

SpecRequest == InitRequest /\ [][NextRequest]_vars

WellFormed(date_str) == date_str.kind = "str" /\ strptime(date_str).raised = "none"

CodesAccepted(codes) ==
    \/ codes = NoCodes
    \/ \A i \in 1..Len(codes) : is_valid_stock_code(codes[i])

\* C9: a construction from two well-formed dates raises ValueError when
\* start_date is later than end_date; when it is not, adjust_flag is one of
\* qfq, hfq, none, and no code list with a rejected code is supplied, the
\* construction succeeds and the request holds the two date strings as
\* they were given.
C9_DateOrder ==
    (last_op = "HistoryCollectRequest"
     /\ WellFormed(ctor_args.start_date) /\ WellFormed(ctor_args.end_date)) =>
        /\ strptime(ctor_args.start_date).day > strptime(ctor_args.end_date).day
               => ctor_result.raised = "ValueError"
        /\ (/\ strptime(ctor_args.start_date).day <= strptime(ctor_args.end_date).day
            /\ ctor_args.adjust_flag \in {"qfq", "hfq", "none"}
            /\ CodesAccepted(ctor_args.stock_codes))
               => /\ ctor_result.raised = "none"
                  /\ ctor_result.request.start_date = ctor_args.start_date
                  /\ ctor_result.request.end_date = ctor_args.end_date

\* a later start in the same month was rejected
C9_Witness ==
    /\ last_op = "HistoryCollectRequest"
    /\ ctor_args.start_date = [kind |-> "str", y |-> 2024, m |-> 2, d |-> 29,
                               padded |-> TRUE]
    /\ ctor_args.end_date = [kind |-> "str", y |-> 2024, m |-> 2, d |-> 1,
                             padded |-> FALSE]
    /\ ctor_args.adjust_flag = "hfq"
    /\ ctor_result.raised = "ValueError"

SixDigits(code) == Len(code) = 6 /\ \A i \in 1..6 : code[i] \in Digits

\* C10: with valid dates and flag, a construction with a supplied code
\* succeeds if and only if the code is exactly six decimal digits.  The code
\* of six digits followed by a newline has seven characters and is accepted.
C10_SixDigitsOnly ==
    (/\ last_op = "HistoryCollectRequest"
     /\ ctor_args.start_date = GoodDate /\ ctor_args.end_date = GoodDate
     /\ ctor_args.adjust_flag = "qfq"
     /\ ctor_args.stock_codes # NoCodes /\ ctor_args.stock_codes # <<>>) =>
        (ctor_result.raised = "none"
             <=> \A i \in 1..Len(ctor_args.stock_codes) :
                     SixDigits(ctor_args.stock_codes[i]))

(***************************************************************************)
(* StockService and the routes of the stock controller                     *)
(***************************************************************************)
MaxCollectCalls == 2

\* the methods ElasticsearchStorage defines
ElasticsearchStorageMethods ==
    {"__init__", "_connect", "_ensure_index_exists", "_prepare_bulk_data",
     "clear_index", "save_stock_data", "get_stock_count", "search_stock",
     "get_all_stock_codes", "close"}

Label(healthy) == IF healthy THEN "healthy" ELSE "unhealthy"

NoComponents == [elasticsearch |-> "", scheduler |-> ""]

\* StockService.health_check: what it returns and which of the lazily built
\* members exist afterwards.  es_ok: the storage answers a ping; sched_ok:
\* StockDataScheduler() does not raise.
health_check(es_ok, sched_ok, have_es_storage, have_scheduler) ==
    IF "check_connection" \notin ElasticsearchStorageMethods
    THEN \* es_storage.check_connection() raises AttributeError, caught by
         \* the outer except
         [result |-> [status |-> "unhealthy", components |-> NoComponents,
                      error |-> "AttributeError"],
          es_storage |-> TRUE, scheduler |-> have_scheduler]
    ELSE LET scheduler_healthy == have_scheduler \/ sched_ok
         IN  [result |-> [status |-> Label(es_ok /\ scheduler_healthy),
                          components |-> [elasticsearch |-> Label(es_ok),
                                          scheduler |-> Label(scheduler_healthy)],
                          error |-> ""],
              es_storage |-> TRUE, scheduler |-> scheduler_healthy]

\* the envelopes of ResponseBuilder; the error labels are named here for
\* the builder that makes them
Envelope(status, success, error) ==
    [status |-> status, success |-> success, error |-> error]
ValidationError == Envelope(400, FALSE, "validation_error")
InternalError == Envelope(500, FALSE, "server_error")

\* The body of a POST.  kind "not_json": the content type is not JSON;
\* "malformed": the content type is JSON and the body is empty or does not
\* parse; "falsy": null, {}, [], 0 or ""; "non_dict": another value that is
\* not an object; "dict": an object with the fields listed.
LaterDate == [kind |-> "str", y |-> 2025, m |-> 1, d |-> 29, padded |-> TRUE]
HttpDates == {GoodDate, LaterDate, OtherText, NotAString}
Absent == "absent"

BodyOf(kind, has_start, has_end, start_date, end_date, codes, adjust_flag) ==
    [kind |-> kind, has_start |-> has_start, has_end |-> has_end,
     start_date |-> start_date, end_date |-> end_date, stock_codes |-> codes,
     adjust_flag |-> adjust_flag]

HttpBodies ==
    {BodyOf(kind, FALSE, FALSE, GoodDate, GoodDate, NoCodes, Absent) :
         kind \in {"not_json", "malformed", "falsy", "non_dict"}}
    \cup {BodyOf("dict", hs, he, GoodDate, GoodDate, NoCodes, Absent) :
              hs \in BOOLEAN, he \in BOOLEAN}
    \cup {BodyOf("dict", TRUE, TRUE, sd, ed, NoCodes, Absent) :
              sd \in HttpDates, ed \in HttpDates}
    \cup {BodyOf("dict", TRUE, TRUE, GoodDate, LaterDate, c, f) :
              c \in FewCodeLists \cup {<<<<"A", "0", "0", "0", "0", "1">>>>},
              f \in {"hfq", "bfq"}}

\* RequestValidator.validate_history_collect_data for an object
validate_history_collect_data(data) ==
    IF ~data.has_start \/ ~data.has_end
    THEN [raised |-> "ValueError", request |-> None]
    ELSE HistoryCollectRequest(data.start_date, data.end_date, data.stock_codes,
                               IF data.adjust_flag = Absent THEN "qfq"
                               ELSE data.adjust_flag)

\* collect_history_data of the stock controller up to the service call:
\* the exception that ends it, "none" if the service is called
collect_route_raises(body) ==
    IF body.kind = "not_json" THEN "ValueError"
    ELSE IF body.kind = "malformed" THEN "BadRequest"   \* request.get_json()
    ELSE IF body.kind = "falsy" THEN "ValueError"
    ELSE IF body.kind = "non_dict" THEN "ValueError"
    ELSE validate_history_collect_data(body).raised

\* handle_exceptions: a ValueError is answered 400, anything else 500
handle_exceptions(raised) ==
    IF raised = "ValueError" THEN ValidationError ELSE InternalError

InitService ==
    /\ last_op = "init"
    /\ IdleDaily
    /\ IdleStrategy
    /\ IdleProcess
    /\ IdleCollect
    /\ IdleSched
    /\ http_req = None
    /\ http_resp = None
    /\ auto_start_scheduler \in BOOLEAN
    /\ IdleBasic
    /\ es_reachable \in BOOLEAN
    /\ scheduler_constructible \in BOOLEAN
    /\ svc_es_storage = FALSE
    /\ svc_scheduler = FALSE
    /\ health = None
    /\ collect_calls = 0
    /\ IdleRequest
    /\ IdleTask
    /\ IdleRealtime
    /\ IdleDelete
    /\ IdleSignal
    /\ IdleWorker
    /\ IdleLock
    /\ IdleSingleton
    /\ IdleRetry
    /\ IdleSetup
    /\ IdleScroll
    /\ IdleApp
    /\ IdleJob
    /\ IdleBackfill

\* the storage engine goes down or comes back
StorageFlips ==
    /\ last_op' = "storage_flips"
    /\ es_reachable' = ~es_reachable
    /\ UNCHANGED <<scheduler_constructible, svc_es_storage, svc_scheduler, health,
                   collect_calls, httpVars, requestVars, OutsideService>>

\* StockDataScheduler() starts or stops raising
SchedulerProbeFlips ==
    /\ last_op' = "scheduler_probe_flips"
    /\ scheduler_constructible' = ~scheduler_constructible
    /\ UNCHANGED <<es_reachable, svc_es_storage, svc_scheduler, health,
                   collect_calls, httpVars, requestVars, OutsideService>>

HealthCheck ==
    LET r == health_check(es_reachable, scheduler_constructible, svc_es_storage,
                          svc_scheduler)
    IN  /\ last_op' = "health_check"
        /\ health' = r.result
        /\ svc_es_storage' = r.es_storage
        /\ svc_scheduler' = r.scheduler
        /\ UNCHANGED <<es_reachable, scheduler_constructible, collect_calls,
                       httpVars, requestVars, OutsideService>>

\* GET /api/v1/health
HttpHealth ==
    LET r == health_check(es_reachable, scheduler_constructible, svc_es_storage,
                          svc_scheduler)
    IN  /\ last_op' = "http_health"
        /\ http_req' = [method |-> "GET", path |-> "/api/v1/health"]
        /\ IF before_request_raises(auto_start_scheduler)
           THEN /\ http_resp' = InternalError
                /\ UNCHANGED <<health, svc_es_storage, svc_scheduler>>
           ELSE /\ health' = r.result
                /\ svc_es_storage' = r.es_storage
                /\ svc_scheduler' = r.scheduler
                /\ http_resp' = IF r.result.status = "healthy"
                                THEN Envelope(200, TRUE, "")
                                ELSE Envelope(503, TRUE, "")
        /\ UNCHANGED <<es_reachable, scheduler_constructible, collect_calls,
                       auto_start_scheduler, requestVars, OutsideService>>

\* POST /api/v1/history/collect
HttpCollectHistory ==
    \E body \in HttpBodies :
        /\ last_op' = "http_collect_history"
        /\ http_req' = [method |-> "POST", path |-> "/api/v1/history/collect",
                        body |-> body]
        /\ IF before_request_raises(auto_start_scheduler)
           THEN /\ http_resp' = InternalError
                /\ UNCHANGED <<collect_calls, svc_scheduler>>
           ELSE IF collect_route_raises(body) # "none"
           THEN /\ http_resp' = handle_exceptions(collect_route_raises(body))
                /\ UNCHANGED <<collect_calls, svc_scheduler>>
           ELSE \* StockService.collect_history_data is called
                /\ collect_calls < MaxCollectCalls
                /\ collect_calls' = collect_calls + 1
                /\ IF ~svc_scheduler /\ ~scheduler_constructible
                   THEN \* _get_scheduler raised
                        /\ http_resp' = InternalError
                        /\ UNCHANGED svc_scheduler
                   ELSE /\ svc_scheduler' = TRUE
                        \* setup_history_schedule_once returns or raises
                        /\ http_resp' \in {Envelope(200, TRUE, ""), InternalError}
        /\ UNCHANGED <<es_reachable, scheduler_constructible, svc_es_storage, health,
                       auto_start_scheduler, requestVars, OutsideService>>

NextService ==
    \/ StorageFlips
    \/ SchedulerProbeFlips
    \/ HealthCheck
    \/ HttpHealth
    \/ HttpCollectHistory

SpecService == InitService /\ [][NextService]_vars

\* C6: health_check reports healthy only when the storage ping and the
\* scheduler-construction probe both succeed; when one of them fails the
\* result is unhealthy and its components map labels each component by its
\* own probe.  The result never has a components map.
C6_HealthComponents ==
    last_op = "health_check" =>
        /\ health.status = "healthy" => (es_reachable /\ scheduler_constructible)
        /\ ~(es_reachable /\ scheduler_constructible) =>
               /\ health.status = "unhealthy"
               /\ health.components =
                      [elasticsearch |-> Label(es_reachable),
                       scheduler |-> Label(scheduler_constructible)]

RejectedBody(body) == collect_route_raises(body) # "none"

\* C7: a POST to /api/v1/history/collect whose body is not JSON, is empty,
\* lacks start_date or end_date or fails the request validation is answered
\* 400 with success = false and an error label, and
\* StockService.collect_history_data is not called.  A body that does not
\* parse and a date that is not a string are answered 500.
C7_RejectedIs400 ==
    [][(last_op' = "http_collect_history" /\ RejectedBody(http_req'.body)) =>
           /\ http_resp'.status = 400
           /\ http_resp'.success = FALSE
           /\ http_resp'.error # ""
           /\ collect_calls' = collect_calls]_vars

\* the number a limit stands for when it is an integer
IsInteger(limit) == limit.kind \in {"int", "bool"}

\* C11: constructing a StockCodesRequest succeeds exactly when limit is an
\* integer with 1 <= limit <= 10000, and every failure is a ValueError; the
\* same holds for the limit string of the query after its conversion.
C11_LimitRange ==
    /\ last_op = "StockCodesRequest" =>
           /\ ctor_result.raised = "none"
                  <=> (IsInteger(ctor_args.limit) /\ ctor_args.limit.n \in 1..10000)
           /\ ctor_result.raised \in {"none", "ValueError"}
           /\ ctor_result.raised = "none" => ctor_result.request.limit = ctor_args.limit
    /\ last_op = "validate_stock_codes_params" =>
           /\ ctor_result.raised \in {"none", "ValueError"}
           /\ ctor_result.raised = "none"
                  <=> \/ ctor_args.limit_arg = LimitAbsent
                      \/ /\ ctor_args.limit_arg.kind = "str"
                         /\ ctor_args.limit_arg.n \in 1..10000

\* limit = 10000 was accepted
C11_Witness ==
    /\ last_op = "StockCodesRequest"
    /\ ctor_args.limit = [kind |-> "int", n |-> 10000]
    /\ ctor_result.raised = "none"

(***************************************************************************)
(* Price scaling of process_history_data                                   *)
(***************************************************************************)
\* a two-digit decimal is held as its number of hundredths c; its text is
\* the units, a point and two digits
DecimalText(c) == [units |-> c \div 100, frac |-> c % 100]

\* f"{close_price/100:.2f}" as main.py and daily_storage.py print it
format_2f(close_price) == [units |-> close_price \div 100, frac |-> close_price % 100]

\* C12: for a row whose close is a two-digit decimal c, process_history_data
\* stores close_price = c x 100 (12.34 gives 1234), stores 0 for a missing
\* close, and close_price / 100 printed with two decimals is c again.  It
\* fails for 0.29, stored as 28: int() truncates the float product
\* 28.999999999999996.
C12_ScaledClose ==
    (last_op = "process_history_data" /\ Len(df) = 1 /\ df[1].close # Bad) =>
        /\ Len(processed_data) = 1
        /\ IF df[1].close = NaN THEN processed_data[1].close_price = 0
           ELSE /\ processed_data[1].close_price = df[1].close
                /\ format_2f(processed_data[1].close_price) = DecimalText(df[1].close)

(***************************************************************************)
(* StockDataScheduler and FlaskStockDataScheduler                          *)
(***************************************************************************)
\* a time of day is <<hour, minute>>; NoTime is an attribute or a
\* configuration key that was never set
NoTime == <<>>
ValidTimes == {<<9, 10>>, <<15, 30>>}
\* the strings update_schedule_time is called with: '09:10', '15:30', '25:00'
TimeStrings == ValidTimes \cup {<<25, 0>>}

\* datetime.strptime(new_time, '%H:%M') does not raise
IsTimeOfDay(t) == Len(t) = 2 /\ t[1] \in 0..23 /\ t[2] \in 0..59

FreshSds == [is_running |-> FALSE, schedule_time |-> NoTime, storage_open |-> TRUE]

NoFsd == [exists |-> FALSE, is_running |-> FALSE, schedule_time |-> NoTime,
          storage_open |-> FALSE, aps_running |-> FALSE, jobs |-> <<>>]

\* StockDataScheduler.setup_schedule: the registry of the schedule module
\* afterwards.  Reading self.schedule_time raises AttributeError while the
\* attribute is unset; that is after schedule.clear() and before any job is
\* registered, and the method catches it.
sds_setup_schedule(s) ==
    IF s.schedule_time = NoTime THEN <<>>
    ELSE <<[job |-> "collect_and_save_data", at |-> s.schedule_time],
           [job |-> "collect_realtime_data_once", at |-> <<16, 0>>]>>

\* StockDataScheduler.start
sds_start(s, registry) ==
    IF s.is_running THEN [sds |-> s, jobs |-> registry]
    ELSE [sds |-> [s EXCEPT !.is_running = TRUE], jobs |-> sds_setup_schedule(s)]

\* a stop that does not look at the running flag
sds_stop_unguarded(s, registry) ==
    [sds |-> [s EXCEPT !.is_running = FALSE, !.storage_open = FALSE], jobs |-> <<>>]

\* StockDataScheduler.stop
sds_stop(s, registry) ==
    IF ~s.is_running THEN [sds |-> s, jobs |-> registry]
    ELSE [sds |-> [s EXCEPT !.is_running = FALSE, !.storage_open = FALSE],
          jobs |-> <<>>]

\* StockDataScheduler.get_status
sds_get_status(s, registry) ==
    IF s.schedule_time = NoTime
    THEN [error |-> TRUE, is_running |-> FALSE, schedule_time |-> NoTime,
          has_next_run |-> FALSE, jobs_count |-> 0]
    ELSE [error |-> FALSE, is_running |-> s.is_running,
          schedule_time |-> s.schedule_time, has_next_run |-> registry # <<>>,
          jobs_count |-> Len(registry)]

\* FlaskStockDataScheduler.setup_schedule: the jobs of its APScheduler
fsd_setup_schedule(f) ==
    <<[id |-> "daily_stock_collection", at |-> f.schedule_time],
      [id |-> "daily_realtime_collection", at |-> <<16, 0>>]>>

\* FlaskStockDataScheduler.start
fsd_start(f) ==
    IF f.is_running THEN f
    ELSE [f EXCEPT !.jobs = fsd_setup_schedule(f), !.aps_running = TRUE,
                   !.is_running = TRUE]

\* FlaskStockDataScheduler.stop; shutting down the APScheduler empties its
\* in-memory job store
fsd_stop(f) ==
    IF ~f.is_running THEN f
    ELSE [f EXCEPT !.is_running = FALSE, !.aps_running = FALSE, !.jobs = <<>>,
                   !.storage_open = FALSE]

\* an update that re-installs the schedule whether or not the scheduler runs
sds_update_schedule_time_installs(s, registry, new_time) ==
    IF ~IsTimeOfDay(new_time) THEN [sds |-> s, jobs |-> registry]
    ELSE [sds |-> [s EXCEPT !.schedule_time = new_time],
          jobs |-> sds_setup_schedule([s EXCEPT !.schedule_time = new_time])]

\* StockDataScheduler.update_schedule_time: strptime raises ValueError for a
\* string that is no time of day, which is caught before anything is set
sds_update_schedule_time(s, registry, new_time) ==
    IF ~IsTimeOfDay(new_time) THEN [sds |-> s, jobs |-> registry]
    ELSE LET updated == [s EXCEPT !.schedule_time = new_time]
         IN  [sds |-> updated,
              jobs |-> IF s.is_running THEN sds_setup_schedule(updated) ELSE registry]

\* FlaskStockDataScheduler.update_schedule_time
fsd_update_schedule_time(f, new_time) ==
    IF ~IsTimeOfDay(new_time) THEN f
    ELSE LET updated == [f EXCEPT !.schedule_time = new_time]
         IN  IF f.is_running THEN [updated EXCEPT !.jobs = fsd_setup_schedule(updated)]
             ELSE updated

Returned(kind) == [kind |-> kind]

InitTask ==
    /\ last_op = "init"
    /\ IdleDaily
    /\ IdleStrategy
    /\ IdleProcess
    /\ IdleCollect
    /\ IdleSched
    /\ IdleHttp
    /\ IdleBasic
    /\ IdleService
    /\ IdleRequest
    /\ cfg_schedule_time = NoTime
    /\ sds = FreshSds
    /\ schedule_jobs = <<>>
    /\ fsd = NoFsd
    /\ ts_ret = Returned("none")
    /\ ts_arg = NoTime
    /\ IdleRealtime
    /\ IdleDelete
    /\ IdleSignal
    /\ IdleWorker
    /\ IdleLock
    /\ IdleSingleton
    /\ IdleRetry
    /\ IdleSetup
    /\ IdleScroll
    /\ IdleApp
    /\ IdleJob
    /\ IdleBackfill

SdsSetupSchedule ==
    /\ last_op' = "sds_setup_schedule"
    /\ ts_arg' = NoTime
    /\ schedule_jobs' = sds_setup_schedule(sds)
    /\ ts_ret' = Returned("none")
    /\ UNCHANGED <<cfg_schedule_time, sds, fsd, OutsideTask>>

SdsStart ==
    /\ last_op' = "sds_start"
    /\ ts_arg' = NoTime
    /\ sds' = sds_start(sds, schedule_jobs).sds
    /\ schedule_jobs' = sds_start(sds, schedule_jobs).jobs
    /\ ts_ret' = Returned("none")
    /\ UNCHANGED <<cfg_schedule_time, fsd, OutsideTask>>

SdsStop ==
    /\ last_op' = "sds_stop"
    /\ ts_arg' = NoTime
    /\ sds' = sds_stop(sds, schedule_jobs).sds
    /\ schedule_jobs' = sds_stop(sds, schedule_jobs).jobs
    /\ ts_ret' = Returned("none")
    /\ UNCHANGED <<cfg_schedule_time, fsd, OutsideTask>>

SdsGetStatus ==
    /\ last_op' = "sds_get_status"
    /\ ts_arg' = NoTime
    /\ ts_ret' = sds_get_status(sds, schedule_jobs)
    /\ UNCHANGED <<cfg_schedule_time, sds, schedule_jobs, fsd, OutsideTask>>

\* StockDataScheduler.update_schedule_time
SdsUpdateScheduleTime ==
    \E new_time \in TimeStrings :
        /\ last_op' = "sds_update_schedule_time"
        /\ ts_ret' = Returned("none")
        /\ ts_arg' = new_time
        /\ sds' = sds_update_schedule_time(sds, schedule_jobs, new_time).sds
        /\ schedule_jobs' = sds_update_schedule_time(sds, schedule_jobs, new_time).jobs
        /\ UNCHANGED <<cfg_schedule_time, fsd, OutsideTask>>

\* update_schedule_time of main.py: the only writer of the configuration key
MainUpdateScheduleTime ==
    \E new_time \in TimeStrings :
        /\ last_op' = "main_update_schedule_time"
        /\ ts_ret' = Returned(IF IsTimeOfDay(new_time) THEN "true" ELSE "false")
        /\ ts_arg' = new_time
        /\ cfg_schedule_time' = IF IsTimeOfDay(new_time) THEN new_time
                                ELSE cfg_schedule_time
        /\ UNCHANGED <<sds, schedule_jobs, fsd, OutsideTask>>

\* FlaskStockDataScheduler(): reading the configuration key raises KeyError
\* while the key is not set
FsdConstruct ==
    /\ last_op' = "fsd_construct"
    /\ ts_arg' = NoTime
    /\ IF cfg_schedule_time = NoTime
       THEN /\ ts_ret' = Returned("KeyError")
            /\ UNCHANGED fsd
       ELSE /\ ts_ret' = Returned("none")
            /\ fsd' = [exists |-> TRUE, is_running |-> FALSE,
                       schedule_time |-> cfg_schedule_time, storage_open |-> TRUE,
                       aps_running |-> FALSE, jobs |-> <<>>]
    /\ UNCHANGED <<cfg_schedule_time, sds, schedule_jobs, OutsideTask>>

FsdStart ==
    /\ fsd.exists
    /\ last_op' = "fsd_start"
    /\ ts_arg' = NoTime
    /\ fsd' = fsd_start(fsd)
    /\ ts_ret' = Returned("none")
    /\ UNCHANGED <<cfg_schedule_time, sds, schedule_jobs, OutsideTask>>

FsdStop ==
    /\ fsd.exists
    /\ last_op' = "fsd_stop"
    /\ ts_arg' = NoTime
    /\ fsd' = fsd_stop(fsd)
    /\ ts_ret' = Returned("none")
    /\ UNCHANGED <<cfg_schedule_time, sds, schedule_jobs, OutsideTask>>

\* FlaskStockDataScheduler.update_schedule_time
FsdUpdateScheduleTime ==
    \E new_time \in TimeStrings :
        /\ fsd.exists
        /\ last_op' = "fsd_update_schedule_time"
        /\ ts_ret' = Returned("none")
        /\ ts_arg' = new_time
        /\ fsd' = fsd_update_schedule_time(fsd, new_time)
        /\ UNCHANGED <<cfg_schedule_time, sds, schedule_jobs, OutsideTask>>

NextTask ==
    \/ SdsSetupSchedule
    \/ SdsStart
    \/ SdsStop
    \/ SdsGetStatus
    \/ SdsUpdateScheduleTime
    \/ MainUpdateScheduleTime
    \/ FsdConstruct
    \/ FsdStart
    \/ FsdStop
    \/ FsdUpdateScheduleTime

SpecTask == InitTask /\ [][NextTask]_vars

\* C36: no scheduler runs on a storage adapter that was closed: after any
\* sequence of start() and stop() calls the storage adapter of a running
\* scheduler is open.  It fails after start, stop, start: stop() closes the
\* adapter the constructor made and start() never makes or opens one.
C36_RunningStorageOpen ==
    /\ sds.is_running => sds.storage_open
    /\ (fsd.exists /\ fsd.is_running) => fsd.storage_open

\* C13: each scheduler is stopped or running; start leaves it running and
\* stop leaves it stopped; start on a running scheduler and stop on a
\* stopped one change neither the flag, nor the job registry, nor the
\* storage adapter.
C13_StartStop ==
    [][/\ last_op' = "sds_start" =>
              /\ sds'.is_running
              /\ sds.is_running => (sds' = sds /\ schedule_jobs' = schedule_jobs)
       /\ last_op' = "sds_stop" =>
              /\ ~sds'.is_running
              /\ ~sds.is_running => (sds' = sds /\ schedule_jobs' = schedule_jobs)
       /\ last_op' = "fsd_start" =>
              /\ fsd'.is_running
              /\ fsd.is_running => fsd' = fsd
       /\ last_op' = "fsd_stop" =>
              /\ ~fsd'.is_running
              /\ ~fsd.is_running => fsd' = fsd
       /\ sds'.is_running \in BOOLEAN /\ fsd'.is_running \in BOOLEAN]_vars

\* both schedulers were started and the first was then stopped
C13_Witness ==
    /\ last_op = "sds_stop"
    /\ ~sds.is_running /\ ~sds.storage_open
    /\ fsd.exists /\ fsd.is_running /\ Len(fsd.jobs) = 2

\* C14: on a StockDataScheduler whose schedule time was never updated,
\* setup_schedule and start leave the registry holding the daily job at the
\* configured time and the realtime job at 16:00, and get_status reports the
\* status fields, not an error.  The registry is left empty and get_status
\* reports an error: the constructor never sets schedule_time.
C14_FreshSchedule ==
    /\ (last_op \in {"sds_setup_schedule", "sds_start"} /\ sds.schedule_time = NoTime) =>
           /\ Len(schedule_jobs) = 2
           /\ schedule_jobs[1].job = "collect_and_save_data"
           /\ IsTimeOfDay(schedule_jobs[1].at)
           /\ schedule_jobs[2] = [job |-> "collect_realtime_data_once", at |-> <<16, 0>>]
    /\ (last_op = "sds_get_status" /\ sds.schedule_time = NoTime) => ~ts_ret.error

MaxSpotRows == 1

\* date.today()
Today == MaxDay

\* the latest price of a spot row, in hundredths; Bad is a value float()
\* rejects
SpotPrices == {1050, Bad}
SpotRows(code) == [code : {code}, latest : SpotPrices]
SpotFrames(code) == UNION {[1..k -> SpotRows(code)] : k \in 0..MaxSpotRows}

\* the daily bars other writers stored before the cycle
StoredBars ==
    [stock_code : {"000001"}, date : Days, close_price : {1000, 1020},
     prev_close_price : {0}]

\* the methods DailyDataStorage defines
DailyDataStorageMethods ==
    {"__init__", "_ensure_index_exists", "save_daily_data", "search_daily_data",
     "get_daily_data_count", "delete_daily_data", "get_stock_date_range", "close"}

\* the keyword arguments _get_previous_close_price passes to search_daily_data
PreviousCloseKwargs == {"stock_code", "size", "sort_by_date", "ascending"}

\* RealtimeDataCollector._get_previous_close_price: a keyword the callee does
\* not declare raises TypeError, which is caught and answered with 0
get_previous_close_price(index, client, stock_code, current_date) ==
    IF ~(PreviousCloseKwargs \subseteq SearchDailyParams) THEN 0
    ELSE LET recent_data == search_daily_data(index, client, stock_code, NoDate, 1)
         IN  IF Len(recent_data) > 0 THEN recent_data[1].close_price ELSE 0

\* RealtimeDataCollector.process_realtime_data: the records of the rows up to
\* the first one whose conversion raises
RECURSIVE process_realtime_data(_, _, _)
process_realtime_data(index, client, data) ==
    IF data = <<>> THEN <<>>
    ELSE IF Head(data).latest \in {NaN, Bad} THEN <<>>
    ELSE <<[stock_code |-> Head(data).code,
            date |-> Today,
            close_price |-> ScaledInt(Head(data).latest),
            prev_close_price |->
                get_previous_close_price(index, client, Head(data).code, Today)]>>
         \o process_realtime_data(index, client, Tail(data))

RealtimeResult(total, success, failed, sz_count, sh_count, all_data) ==
    [total |-> total, success |-> success, failed |-> failed,
     sz_count |-> sz_count, sh_count |-> sh_count, all_data |-> all_data]

\* RealtimeDataCollector.collect_all_realtime_data and _send_to_kafka: the
\* result, the index afterwards and the records sent.  An empty frame stands
\* for a fetch that returned None; save_success is what the batch save
\* returns where the adapter has such a method, and looking up a method it
\* has not raises AttributeError, caught by the outer handler.
collect_all_realtime_data(index, client, sz_data, sh_data, save_success) ==
    LET sz_processed == process_realtime_data(index, client, sz_data)
        sh_processed == process_realtime_data(index, client, sh_data)
        all_data == sz_processed \o sh_processed
        total == Len(all_data)
    IN  IF all_data = <<>>
        THEN [result |-> RealtimeResult(0, 0, 0, Len(sz_processed),
                                        Len(sh_processed), all_data),
              index |-> index, sent |-> <<>>]
        ELSE IF "save_daily_data_batch" \notin DailyDataStorageMethods
        THEN [result |-> RealtimeResult(total, 0, total, Len(sz_processed),
                                        Len(sh_processed), all_data),
              index |-> index, sent |-> <<>>]
        ELSE IF save_success
        THEN [result |-> RealtimeResult(total, total, 0, Len(sz_processed),
                                        Len(sh_processed), all_data),
              index |-> BulkIndexDaily(index, all_data), sent |-> all_data]
        ELSE [result |-> RealtimeResult(total, 0, total, Len(sz_processed),
                                        Len(sh_processed), all_data),
              index |-> index, sent |-> <<>>]

InitRealtime ==
    /\ last_op = "init"
    /\ daily_index = {}
    /\ daily_client \in BOOLEAN
    /\ IdleStrategy
    /\ IdleProcess
    /\ IdleCollect
    /\ IdleSched
    /\ IdleHttp
    /\ IdleBasic
    /\ IdleService
    /\ IdleRequest
    /\ IdleTask
    /\ IdleRealtime
    /\ IdleDelete
    /\ IdleSignal
    /\ IdleWorker
    /\ IdleLock
    /\ IdleSingleton
    /\ IdleRetry
    /\ IdleSetup
    /\ IdleScroll
    /\ IdleApp
    /\ IdleJob
    /\ IdleBackfill

\* DailyDataStorage.save_daily_data of a one-record list on a live client,
\* as the history collection calls it
SaveStoredBar ==
    \E data \in StoredBars :
        /\ daily_client
        /\ last_op' = "save_daily_data"
        /\ daily_index' = BulkIndexDaily(daily_index, <<data>>)
        /\ UNCHANGED <<daily_client, realtimeVars, jobVars, OutsideRealtime>>

CollectAllRealtimeData ==
    \E sz_data \in SpotFrames("000001"), sh_data \in SpotFrames("600000"),
       save_success \in BOOLEAN :
        LET cycle == collect_all_realtime_data(daily_index, daily_client, sz_data,
                                               sh_data, save_success)
        IN  /\ last_op' = "collect_all_realtime_data"
            /\ rt_rows' = <<sz_data, sh_data>>
            /\ rt_result' = cycle.result
            /\ rt_sent' = cycle.sent
            /\ daily_index' = cycle.index
            /\ UNCHANGED <<daily_client, jobVars, OutsideRealtime>>

\* the methods RealtimeDataCollector defines
RealtimeCollectorMethods ==
    {"__init__", "get_sz_realtime_data", "get_sh_realtime_data",
     "process_realtime_data", "_get_previous_close_price",
     "collect_all_realtime_data", "_send_to_kafka", "close"}

\* the parameters StockDataScheduler.setup_realtime_schedule declares besides
\* self
SetupRealtimeScheduleParams == {}

\* the 16:00 job of the built-in schedule, the one-shot
\* setup_realtime_schedule_once and the task SchedulerService registers
RealtimeJobs == {"daily_16", "once", "service_task"}

JobRun(markets, outcome, cycle) ==
    [markets |-> markets, outcome |-> outcome, cycle |-> cycle]

\* collect_realtime_data_once: it calls collect_and_process_data on the
\* collector; looking up a method the collector has not raises
\* AttributeError, which the handler logs.  cycle is what the collector's
\* cycle would do.
collect_realtime_data_once(cycle, untouched) ==
    IF "collect_and_process_data" \notin RealtimeCollectorMethods
    THEN JobRun({}, "error_logged", untouched)
    ELSE JobRun({"SZ", "SH"}, "done", cycle)

\* the function of SchedulerService.add_stock_realtime_task: it calls
\* setup_realtime_schedule(execute_now=True); an undeclared keyword raises
\* TypeError, and the method otherwise only registers the 16:00 job
collect_realtime(untouched) ==
    IF "execute_now" \notin SetupRealtimeScheduleParams
    THEN JobRun({}, "TypeError", untouched)
    ELSE JobRun({}, "registered", untouched)

\* one run of a realtime job
RunRealtimeJob ==
    \E kind \in RealtimeJobs, sz_data \in SpotFrames("000001"),
       sh_data \in SpotFrames("600000"), save_success \in BOOLEAN :
        LET cycle == collect_all_realtime_data(daily_index, daily_client, sz_data,
                                               sh_data, save_success)
            untouched == [result |-> rt_result, index |-> daily_index,
                          sent |-> rt_sent]
            run == IF kind = "service_task" THEN collect_realtime(untouched)
                   ELSE collect_realtime_data_once(cycle, untouched)
        IN  /\ last_op' = "realtime_job"
            /\ rj_kind' = kind
            /\ rj_markets' = run.markets
            /\ rj_outcome' = run.outcome
            /\ rt_rows' = IF run.markets = {} THEN rt_rows ELSE <<sz_data, sh_data>>
            /\ rt_result' = run.cycle.result
            /\ rt_sent' = run.cycle.sent
            /\ daily_index' = run.cycle.index
            /\ UNCHANGED <<daily_client, OutsideRealtime>>

NextRealtime == SaveStoredBar \/ CollectAllRealtimeData \/ RunRealtimeJob

SpecRealtime == InitRealtime /\ [][NextRealtime]_vars

\* C16: a cycle with at least one processed record persists the batch
\* through the daily-bar adapter; where the save succeeds (the adapter's
\* client is live) every record is published and the result reports
\* success = total and failed = 0, and where it fails nothing is published
\* and failed = total.  It fails on a live client: the adapter has no
\* save_daily_data_batch, so nothing is ever saved or published.
C16_SaveThenPublish ==
    (last_op = "collect_all_realtime_data" /\ rt_result.total > 0) =>
        IF daily_client
        THEN /\ rt_sent = rt_result.all_data
             /\ rt_result.success = rt_result.total
             /\ rt_result.failed = 0
             /\ \A i \in 1..Len(rt_result.all_data) :
                    \E d \in daily_index : d.source = rt_result.all_data[i]
        ELSE /\ rt_sent = <<>>
             /\ rt_result.failed = rt_result.total

\* the close of the most recent bar stored for the symbol before current_date
PriorClose(index, stock_code, current_date) ==
    LET prior == {d.source : d \in {x \in index :
                      /\ x.source.stock_code = stock_code
                      /\ x.source.date < current_date}}
    IN  IF prior = {} THEN 0
        ELSE (CHOOSE r \in prior : \A o \in prior : o.date <= r.date).close_price

\* C17: on a live client every record the realtime path produces for a
\* symbol carries the close of the most recent bar stored for it from a
\* prior date, and 0 only when there is none.  It fails: the lookup passes
\* the keyword ascending, search_daily_data raises TypeError, and the
\* record carries 0 whatever is stored.
C17_PrevClose ==
    (last_op = "collect_all_realtime_data" /\ daily_client) =>
        \A i \in 1..Len(rt_result.all_data) :
            rt_result.all_data[i].prev_close_price =
                PriorClose(daily_index, rt_result.all_data[i].stock_code, Today)

\* C33: whenever a realtime job runs (the 16:00 job, the one-shot setup or
\* a SchedulerService realtime task) the collector's cycle is executed: both
\* markets are fetched.  It fails for every kind of job: the scheduler
\* calls a collector method that does not exist and the service task passes
\* a keyword setup_realtime_schedule does not declare, so no job fetches.
C33_FullCycle ==
    last_op = "realtime_job" =>
        /\ rj_markets = {"SZ", "SH"}
        /\ rj_outcome = "done"

(***************************************************************************)
(* DailyDataStorage.delete_daily_data                                      *)
(***************************************************************************)
\* arguments of delete_daily_data; "" and NoDate are the values Python
\* treats as false (None, the empty string)
DeleteCodes == {"", "000001", "600000"}
DeleteDates == Days \cup {NoDate}

\* the documents a delete-by-query with the three conditions matches
MatchesDelete(index, stock_code, start_date, end_date) ==
    {d \in index :
        /\ (stock_code # "" => d.source.stock_code = stock_code)
        /\ (start_date # NoDate => d.source.date >= start_date)
        /\ (end_date # NoDate => d.source.date <= end_date)}

DeleteQuery(stock_code, start_date, end_date) ==
    [stock_code |-> stock_code, gte |-> start_date, lte |-> end_date]

\* a delete_daily_data that sends the query whatever its conditions are
delete_daily_data_unconditioned(index, client, stock_code, start_date, end_date, raises, survivors) ==
    IF ~client THEN [ret |-> FALSE, index |-> index, requests |-> <<>>]
    ELSE LET matched == MatchesDelete(index, stock_code, start_date, end_date)
         IN  IF raises
             THEN [ret |-> FALSE, index |-> (index \ matched) \cup (matched \cap survivors),
                   requests |-> <<DeleteQuery(stock_code, start_date, end_date)>>]
             ELSE [ret |-> TRUE, index |-> index \ matched,
                   requests |-> <<DeleteQuery(stock_code, start_date, end_date)>>]

\* DailyDataStorage.delete_daily_data: the value returned, the index
\* afterwards and the requests issued.  raises tells whether delete_by_query
\* raised, survivors which documents it had not deleted by then (all of
\* them for a request that never arrived, none for a lost response).
delete_daily_data(index, client, stock_code, start_date, end_date, raises, survivors) ==
    IF ~client THEN [ret |-> FALSE, index |-> index, requests |-> <<>>]
    ELSE IF stock_code = "" /\ start_date = NoDate /\ end_date = NoDate
    THEN [ret |-> FALSE, index |-> index, requests |-> <<>>]
    ELSE LET matched == MatchesDelete(index, stock_code, start_date, end_date)
         IN  IF raises
             THEN [ret |-> FALSE, index |-> (index \ matched) \cup (matched \cap survivors),
                   requests |-> <<DeleteQuery(stock_code, start_date, end_date)>>]
             ELSE [ret |-> TRUE, index |-> index \ matched,
                   requests |-> <<DeleteQuery(stock_code, start_date, end_date)>>]

InitDelete ==
    /\ last_op = "init"
    /\ daily_index = {}
    /\ daily_client \in BOOLEAN
    /\ IdleStrategy
    /\ IdleProcess
    /\ IdleCollect
    /\ IdleSched
    /\ IdleHttp
    /\ IdleBasic
    /\ IdleService
    /\ IdleRequest
    /\ IdleTask
    /\ IdleRealtime
    /\ IdleDelete
    /\ IdleSignal
    /\ IdleWorker
    /\ IdleLock
    /\ IdleSingleton
    /\ IdleRetry
    /\ IdleSetup
    /\ IdleScroll
    /\ IdleApp
    /\ IdleJob
    /\ IdleBackfill

DeleteDailyData ==
    \E stock_code \in DeleteCodes, start_date \in DeleteDates, end_date \in DeleteDates,
       raises \in BOOLEAN, survivors \in {{}, daily_index} :
        LET result == delete_daily_data(daily_index, daily_client, stock_code,
                                        start_date, end_date, raises, survivors)
        IN  /\ ~raises => survivors = {}
            /\ last_op' = "delete_daily_data"
            /\ del_call' = [stock_code |-> stock_code, start_date |-> start_date,
                            end_date |-> end_date]
            /\ del_ret' = result.ret
            /\ del_requests' = result.requests
            /\ daily_index' = result.index
            /\ UNCHANGED <<daily_client, OutsideDelete>>

NextDelete == SaveStoredBar \/ DeleteDailyData

SpecDelete == InitDelete /\ [][NextDelete]_vars

\* C20: delete_daily_data called with none of stock_code, start_date and
\* end_date refuses: it returns false, issues no delete request and leaves
\* every document of the daily-bar index in place.
C20_RefusesUnfiltered ==
    [][(/\ last_op' = "delete_daily_data"
        /\ del_call'.stock_code = ""
        /\ del_call'.start_date = NoDate
        /\ del_call'.end_date = NoDate)
       => (/\ del_ret' = FALSE
           /\ del_requests' = <<>>
           /\ daily_index' = daily_index)]_vars

\* an unfiltered call on a live client over a store that holds bars
C20_Witness ==
    /\ last_op = "delete_daily_data"
    /\ del_call = [stock_code |-> "", start_date |-> NoDate, end_date |-> NoDate]
    /\ daily_client
    /\ Cardinality(daily_index) >= 2
    /\ del_ret = FALSE
    /\ del_requests = <<>>

(***************************************************************************)
(* NineTurnStorage.save_strategy_signal                                    *)
(***************************************************************************)
MaxClock == 3

SignalDates == {1, 2}
SignalPricesIn == {1050, 1100}
SignalInputs ==
    [date : SignalDates, stock_code : {"000001"}, market_type : {"SZ"},
     current_price : SignalPricesIn, compare_price : {1000}]

OutsideSignal == <<dailyVars, strategyVars, processVars, collectVars, schedVars,
                   httpVars, basicVars, serviceVars, requestVars, taskVars,
                   realtimeVars, deleteVars,
        workerVars,
        lockVars,
        singletonVars,
        retryVars,
        setupVars,
        scrollVars,
        appVars,
        jobVars,
        backfillVars>>

\* the document save_strategy_signal builds from stock_data at time now
SignalDoc(stock_data, now) ==
    [date |-> stock_data.date,
     stock_code |-> stock_data.stock_code,
     market_type |-> stock_data.market_type,
     signal_type |-> "nine_turn_buy",
     current_price |-> stock_data.current_price,
     compare_price |-> stock_data.compare_price,
     created_at |-> now]

\* doc_id = f"{date}_{stock_code}_{market_type}"
SignalDocId(doc) == <<doc.date, doc.stock_code, doc.market_type>>

\* a save that lets the index assign the document id
save_strategy_signal_auto_id(index, stock_data, now, raises) ==
    IF raises THEN [ret |-> FALSE, index |-> index]
    ELSE [ret |-> TRUE,
          index |-> index \cup
              {[id |-> <<stock_data.date, stock_data.stock_code,
                         stock_data.market_type, now>>,
                source |-> SignalDoc(stock_data, now)]}]

\* NineTurnStorage.save_strategy_signal: es_client.index under the built id
\* answers created or updated, both reported as success; raises tells
\* whether the request raised, which is caught and reported as False
save_strategy_signal(index, stock_data, now, raises) ==
    IF raises THEN [ret |-> FALSE, index |-> index]
    ELSE [ret |-> TRUE,
          index |-> IndexDoc(index, SignalDocId(SignalDoc(stock_data, now)),
                             SignalDoc(stock_data, now))]

InitSignal ==
    /\ last_op = "init"
    /\ IdleDaily
    /\ IdleStrategy
    /\ IdleProcess
    /\ IdleCollect
    /\ IdleSched
    /\ IdleHttp
    /\ IdleBasic
    /\ IdleService
    /\ IdleRequest
    /\ IdleTask
    /\ IdleRealtime
    /\ IdleDelete
    /\ IdleSignal
    /\ IdleWorker
    /\ IdleLock
    /\ IdleSingleton
    /\ IdleRetry
    /\ IdleSetup
    /\ IdleScroll
    /\ IdleApp
    /\ IdleJob
    /\ IdleBackfill

SaveStrategySignal ==
    \E stock_data \in SignalInputs, raises \in BOOLEAN :
        LET result == save_strategy_signal(nt_index, stock_data, nt_clock + 1, raises)
        IN  /\ nt_clock < MaxClock
            /\ last_op' = "save_strategy_signal"
            /\ nt_clock' = nt_clock + 1
            /\ nt_call' = stock_data
            /\ nt_ret' = result.ret
            /\ nt_index' = result.index
            /\ UNCHANGED OutsideSignal

NextSignal == SaveStrategySignal

SpecSignal == InitSignal /\ [][NextSignal]_vars

SignalKeys(index) == {d.id : d \in index}

MaxThreads == 3

OutsideWorker == <<dailyVars, strategyVars, processVars, collectVars, schedVars,
                   httpVars, basicVars, serviceVars, requestVars, taskVars,
                   realtimeVars, deleteVars, signalVars,
        lockVars,
        singletonVars,
        retryVars,
        setupVars,
        scrollVars,
        appVars,
        jobVars,
        backfillVars>>

\* positions of a thread in _scheduler_worker: at the loop test, inside
\* schedule.run_pending(), inside time.sleep(60), returned
WorkerPositions == {"test", "run_pending", "sleep", "returned"}

InitWorker ==
    /\ last_op = "init"
    /\ IdleDaily
    /\ IdleStrategy
    /\ IdleProcess
    /\ IdleCollect
    /\ IdleSched
    /\ IdleHttp
    /\ IdleBasic
    /\ IdleService
    /\ IdleRequest
    /\ IdleTask
    /\ IdleRealtime
    /\ IdleDelete
    /\ IdleSignal
    /\ IdleWorker
    /\ IdleLock
    /\ IdleSingleton
    /\ IdleRetry
    /\ IdleSetup
    /\ IdleScroll
    /\ IdleApp
    /\ IdleJob
    /\ IdleBackfill

\* start(): returns at once when running; otherwise sets the flag and starts
\* a new thread on _scheduler_worker, which becomes self.scheduler_thread
WorkerStart ==
    /\ wk_caller = "idle"
    /\ Len(wk_threads) < MaxThreads
    /\ last_op' = "start"
    /\ IF wk_is_running
       THEN UNCHANGED <<wk_is_running, wk_threads>>
       ELSE /\ wk_is_running' = TRUE
            /\ wk_threads' = Append(wk_threads, "test")
    /\ UNCHANGED <<wk_caller, OutsideWorker>>

\* stop() up to the join: returns at once when not running; otherwise clears
\* the flag and joins self.scheduler_thread
WorkerStop ==
    /\ wk_caller = "idle"
    /\ last_op' = "stop"
    /\ wk_is_running' = FALSE
    /\ wk_caller' = IF wk_is_running THEN "join" ELSE "idle"
    /\ UNCHANGED <<wk_threads, OutsideWorker>>

\* scheduler_thread.join(timeout=5) ends: the thread has returned, or the 5
\* seconds are over while it is inside run_pending() or sleep(60)
WorkerJoinEnds ==
    /\ wk_caller = "join"
    /\ wk_threads[Len(wk_threads)] \in {"returned", "run_pending", "sleep"}
    /\ last_op' = "stop_returns"
    /\ wk_caller' = "idle"
    /\ UNCHANGED <<wk_is_running, wk_threads, OutsideWorker>>

\* while self.is_running
WorkerTest ==
    \E i \in 1..Len(wk_threads) :
        /\ wk_threads[i] = "test"
        /\ last_op' = "worker_test"
        /\ wk_threads' = [wk_threads EXCEPT ![i] =
                              IF wk_is_running THEN "run_pending" ELSE "returned"]
        /\ UNCHANGED <<wk_is_running, wk_caller, OutsideWorker>>

\* schedule.run_pending() returns or raises; either way the thread sleeps
WorkerRunPending ==
    \E i \in 1..Len(wk_threads) :
        /\ wk_threads[i] = "run_pending"
        /\ last_op' = "worker_run_pending"
        /\ wk_threads' = [wk_threads EXCEPT ![i] = "sleep"]
        /\ UNCHANGED <<wk_is_running, wk_caller, OutsideWorker>>

\* time.sleep(60) returns
WorkerWake ==
    \E i \in 1..Len(wk_threads) :
        /\ wk_threads[i] = "sleep"
        /\ last_op' = "worker_wake"
        /\ wk_threads' = [wk_threads EXCEPT ![i] = "test"]
        /\ UNCHANGED <<wk_is_running, wk_caller, OutsideWorker>>

NextWorker ==
    \/ WorkerStart
    \/ WorkerStop
    \/ WorkerJoinEnds
    \/ WorkerTest
    \/ WorkerRunPending
    \/ WorkerWake

SpecWorker == InitWorker /\ [][NextWorker]_vars

Polling(threads) == {i \in 1..Len(threads) : threads[i] = "run_pending"}
InLoop(threads) == {i \in 1..Len(threads) : threads[i] # "returned"}

\* C22: under any sequence of start() and stop() calls at most one worker
\* thread polls the job registry at a time, and a stopped scheduler drives
\* no worker that polls again.  It fails after stop(); start() within a
\* worker's sleep: the earlier worker wakes, reads the flag the later
\* start() set, and goes on polling beside the new worker.
C22_OneWorker ==
    /\ Cardinality(Polling(wk_threads)) <= 1
    /\ (wk_is_running /\ wk_caller = "idle") => Cardinality(InLoop(wk_threads)) <= 1

(***************************************************************************)
(* FlaskStockDataScheduler.collect_and_save_data under its lock            *)
(***************************************************************************)
MaxInvokers == 3

\* the threads that invoke the job: executor threads of cron firings and the
\* caller of run_once
Invokers == 1..MaxInvokers

OutsideLock == <<dailyVars, strategyVars, processVars, collectVars, schedVars,
                 httpVars, basicVars, serviceVars, requestVars, taskVars,
                 realtimeVars, deleteVars, signalVars, workerVars,
        singletonVars,
        retryVars,
        setupVars,
        scrollVars,
        appVars,
        jobVars,
        backfillVars>>

\* positions between entering the with block and leaving it
InsideCollectAndSave == {"collect", "clear_index", "bulk", "count"}

\* a with statement that does not wait for the lock
lock_acquirable_always(lock, t) == TRUE

\* with self._lock: a threading.Lock is taken only while no thread holds it
lock_acquirable(lock, t) == lock = 0

InitLock ==
    /\ last_op = "init"
    /\ IdleDaily
    /\ IdleStrategy
    /\ IdleProcess
    /\ IdleCollect
    /\ IdleSched
    /\ IdleHttp
    /\ IdleBasic
    /\ IdleService
    /\ IdleRequest
    /\ IdleTask
    /\ IdleRealtime
    /\ IdleDelete
    /\ IdleSignal
    /\ IdleWorker
    /\ IdleSingleton
    /\ IdleRetry
    /\ IdleSetup
    /\ IdleScroll
    /\ IdleApp
    /\ IdleJob
    /\ IdleBackfill
    /\ fl_pc = [t \in Invokers |-> "idle"]
    /\ fl_lock = 0

\* a firing or run_once calls collect_and_save_data
LockInvoke ==
    \E t \in Invokers :
        /\ fl_pc[t] \in {"idle", "returned_true", "returned_false"}
        /\ last_op' = "invoke"
        /\ fl_pc' = [fl_pc EXCEPT ![t] = "with"]
        /\ UNCHANGED <<fl_lock, OutsideLock>>

LockEnter ==
    \E t \in Invokers :
        /\ fl_pc[t] = "with"
        /\ lock_acquirable(fl_lock, t)
        /\ last_op' = "enter"
        /\ fl_lock' = t
        /\ fl_pc' = [fl_pc EXCEPT ![t] = "collect"]
        /\ UNCHANGED OutsideLock

\* one step inside the block: get_stock_basic_info, then clear_index, the
\* bulk save and get_stock_count of a save that goes on
LockStep ==
    \E t \in Invokers :
        /\ fl_pc[t] \in {"collect", "clear_index", "bulk"}
        /\ last_op' = "step"
        /\ fl_pc' = [fl_pc EXCEPT ![t] =
                         IF fl_pc[t] = "collect" THEN "clear_index"
                         ELSE IF fl_pc[t] = "clear_index" THEN "bulk"
                         ELSE "count"]
        /\ UNCHANGED <<fl_lock, OutsideLock>>

\* the block is left and the with statement releases the lock: return False
\* for no data, a failed save or an exception, return True after the count
LockLeave ==
    \E t \in Invokers, ret \in BOOLEAN :
        /\ fl_pc[t] \in InsideCollectAndSave
        /\ ret => fl_pc[t] = "count"
        /\ last_op' = "leave"
        /\ fl_lock' = IF fl_lock = t THEN 0 ELSE fl_lock
        /\ fl_pc' = [fl_pc EXCEPT ![t] = IF ret THEN "returned_true"
                                          ELSE "returned_false"]
        /\ UNCHANGED OutsideLock

NextLock == LockInvoke \/ LockEnter \/ LockStep \/ LockLeave

SpecLock == InitLock /\ [][NextLock]_vars

InsideNow == {t \in Invokers : fl_pc[t] \in InsideCollectAndSave}

\* C23: on one FlaskStockDataScheduler at most one invocation of
\* collect_and_save_data is between collecting and returning, and it is the
\* one holding the lock.
C23_Serialized ==
    /\ Cardinality(InsideNow) <= 1
    /\ \A t \in InsideNow : fl_lock = t

\* one invocation is saving while two others wait at the lock
C23_Witness ==
    /\ fl_pc[1] = "bulk"
    /\ fl_pc[2] = "with"
    /\ fl_pc[3] = "returned_true"
    /\ fl_lock = 1

(***************************************************************************)
(* get_stock_service and get_scheduler_service                             *)
(***************************************************************************)
MaxCallers == 2

RequestThreads == 1..MaxCallers
Accessors == {"get_stock_service", "get_scheduler_service"}

OutsideSingleton == <<dailyVars, strategyVars, processVars, collectVars, schedVars,
                      httpVars, basicVars, serviceVars, requestVars, taskVars,
                      realtimeVars, deleteVars, signalVars, workerVars, lockVars,
        retryVars,
        setupVars,
        scrollVars,
        appVars,
        jobVars,
        backfillVars>>

ThreadAt(position, accessor, made) ==
    [pc |-> position, accessor |-> accessor, made |-> made]

InitSingleton ==
    /\ last_op = "init"
    /\ IdleDaily
    /\ IdleStrategy
    /\ IdleProcess
    /\ IdleCollect
    /\ IdleSched
    /\ IdleHttp
    /\ IdleBasic
    /\ IdleService
    /\ IdleRequest
    /\ IdleTask
    /\ IdleRealtime
    /\ IdleDelete
    /\ IdleSignal
    /\ IdleWorker
    /\ IdleLock
    /\ IdleRetry
    /\ IdleSetup
    /\ IdleScroll
    /\ IdleApp
    /\ IdleJob
    /\ IdleBackfill
    /\ sg_instance = [a \in Accessors |-> 0]
    /\ sg_constructed = [a \in Accessors |-> 0]
    /\ sg_returned = [a \in Accessors |-> {}]
    /\ sg_threads = [t \in RequestThreads |-> ThreadAt("idle", "get_stock_service", 0)]

\* if _instance is None
instance_is_none(instance) == instance = 0

\* a thread calls an accessor and evaluates the test
AccessorTest ==
    \E t \in RequestThreads, a \in Accessors :
        /\ sg_threads[t].pc = "idle"
        /\ last_op' = "accessor_test"
        /\ sg_threads' = [sg_threads EXCEPT ![t] =
                              IF instance_is_none(sg_instance[a])
                              THEN ThreadAt("construct", a, 0)
                              ELSE ThreadAt("return", a, 0)]
        /\ UNCHANGED <<sg_instance, sg_constructed, sg_returned, OutsideSingleton>>

\* StockService() / SchedulerService(): the constructor returns a new object
AccessorConstruct ==
    \E t \in RequestThreads :
        LET a == sg_threads[t].accessor
        IN  /\ sg_threads[t].pc = "construct"
            /\ last_op' = "accessor_construct"
            /\ sg_constructed' = [sg_constructed EXCEPT ![a] = @ + 1]
            /\ sg_threads' = [sg_threads EXCEPT ![t] =
                                  ThreadAt("assign", a, sg_constructed[a] + 1)]
            /\ UNCHANGED <<sg_instance, sg_returned, OutsideSingleton>>

\* _instance = <the new object>
AccessorAssign ==
    \E t \in RequestThreads :
        LET a == sg_threads[t].accessor
        IN  /\ sg_threads[t].pc = "assign"
            /\ last_op' = "accessor_assign"
            /\ sg_instance' = [sg_instance EXCEPT ![a] = sg_threads[t].made]
            /\ sg_threads' = [sg_threads EXCEPT ![t] = ThreadAt("return", a, 0)]
            /\ UNCHANGED <<sg_constructed, sg_returned, OutsideSingleton>>

\* return _instance: the global as it is now
AccessorReturn ==
    \E t \in RequestThreads :
        LET a == sg_threads[t].accessor
        IN  /\ sg_threads[t].pc = "return"
            /\ last_op' = "accessor_return"
            /\ sg_returned' = [sg_returned EXCEPT ![a] = @ \cup {sg_instance[a]}]
            /\ sg_threads' = [sg_threads EXCEPT ![t] =
                                  ThreadAt("idle", "get_stock_service", 0)]
            /\ UNCHANGED <<sg_instance, sg_constructed, OutsideSingleton>>

NextSingleton ==
    \/ AccessorTest
    \/ AccessorConstruct
    \/ AccessorAssign
    \/ AccessorReturn

SpecSingleton == InitSingleton /\ [][NextSingleton]_vars

\* C24: every call of one accessor returns the same instance and at most
\* one instance of each service is constructed, also with concurrent first
\* calls.  It fails for two threads that both evaluate the test before
\* either assigns: each constructs a service, and the calls return
\* different objects.
C24_Singleton ==
    \A a \in Accessors :
        /\ sg_constructed[a] <= 1
        /\ Cardinality(sg_returned[a]) <= 1

(***************************************************************************)
(* The retry loops: HistoryDataCollector.get_stock_history_data and        *)
(* StockDataCollector._retry_request                                       *)
(***************************************************************************)
MaxTries == 4
RetryDelay == 5

\* a call of the upstream that returns None instead of a frame
NoFrame == <<[date |-> 0, close |-> 1]>>
RetryResponses == UpstreamResponses \cup {NoFrame}

\* result is not None and not result.empty
HasRows(response) == response \notin {<<>>, NoFrame, Raises}

OutsideRetry == <<dailyVars, strategyVars, processVars, collectVars, schedVars,
                  httpVars, basicVars, serviceVars, requestVars, taskVars,
                  realtimeVars, deleteVars, signalVars, workerVars, lockVars,
                  singletonVars,
        setupVars,
        scrollVars,
        appVars,
        jobVars,
        backfillVars>>

\* what one pass of a retry loop comes to: whether the call returns in it,
\* what it then returns (<<>> stands for None), and the seconds it sleeps
LoopPass(returns, ret, sleep) == [returns |-> returns, ret |-> ret, sleep |-> sleep]

\* a pass of get_stock_history_data that also takes an empty frame for a
\* failed attempt
history_attempt_retry_empty(response, attempt, max_retries) ==
    IF HasRows(response) THEN LoopPass(TRUE, response, 0)
    ELSE IF attempt < max_retries - 1 THEN LoopPass(FALSE, <<>>, 2 ^ attempt)
    ELSE LoopPass(TRUE, <<>>, 0)

\* one pass of the loop of get_stock_history_data
history_attempt(response, attempt, max_retries) ==
    IF response = Raises
    THEN IF attempt < max_retries - 1
         THEN LoopPass(FALSE, <<>>, 2 ^ attempt)
         ELSE LoopPass(TRUE, <<>>, 0)
    ELSE IF HasRows(response) THEN LoopPass(TRUE, response, 0)
    ELSE LoopPass(TRUE, <<>>, 0)

\* one pass of the loop of _retry_request; the pass after the last falls out
\* of the loop to `return None`
retry_request_attempt(response, attempt, retry_times, retry_delay) ==
    IF response = Raises
    THEN IF attempt < retry_times - 1
         THEN LoopPass(FALSE, <<>>, retry_delay)
         ELSE LoopPass(TRUE, <<>>, 0)
    ELSE IF HasRows(response) THEN LoopPass(TRUE, response, 0)
    ELSE LoopPass(attempt >= retry_times - 1, <<>>, 0)

InitRetry ==
    /\ last_op = "init"
    /\ IdleDaily
    /\ IdleStrategy
    /\ IdleProcess
    /\ IdleCollect
    /\ IdleSched
    /\ IdleHttp
    /\ IdleBasic
    /\ IdleService
    /\ IdleRequest
    /\ IdleTask
    /\ IdleRealtime
    /\ IdleDelete
    /\ IdleSignal
    /\ IdleWorker
    /\ IdleLock
    /\ IdleSingleton
    /\ IdleSetup
    /\ IdleScroll
    /\ IdleApp
    /\ IdleJob
    /\ IdleBackfill
    /\ rq_pc = "idle"
    /\ rq_max = 0
    /\ rq_log = <<>>
    /\ rq_sleeps = <<>>
    /\ rq_ret = <<>>
    /\ rq_target = ""

\* a call is made: range(max_retries) is empty for 0 and the call returns None
RetryCall(name, targets) ==
    \E tries \in 0..MaxTries, target \in targets :
        /\ rq_pc \in {"idle", "done"}
        /\ last_op' = name
        /\ rq_target' = target
        /\ rq_max' = tries
        /\ rq_log' = <<>>
        /\ rq_sleeps' = <<>>
        /\ rq_ret' = <<>>
        /\ rq_pc' = IF tries = 0 THEN "done" ELSE "loop"
        /\ UNCHANGED OutsideRetry

RetryPass(pass(_, _)) ==
    \E response \in RetryResponses :
        LET outcome == pass(response, Len(rq_log))
        IN  /\ rq_pc = "loop"
            /\ last_op' = "attempt"
            /\ rq_log' = Append(rq_log, response)
            /\ rq_sleeps' = Append(rq_sleeps, outcome.sleep)
            /\ rq_ret' = outcome.ret
            /\ rq_pc' = IF outcome.returns THEN "done"
                        ELSE IF outcome.sleep > 0 THEN "sleep" ELSE "loop"
            /\ UNCHANGED <<rq_max, rq_target, OutsideRetry>>

\* time.sleep returns
RetryWake ==
    /\ rq_pc = "sleep"
    /\ last_op' = "wake"
    /\ rq_pc' = "loop"
    /\ UNCHANGED <<rq_max, rq_log, rq_sleeps, rq_ret, rq_target, OutsideRetry>>

GetStockHistoryData == RetryCall("get_stock_history_data", StockCodes)

HistoryAttempt ==
    LET pass(response, attempt) == history_attempt(response, attempt, rq_max)
    IN  RetryPass(pass)

NextHistoryRetry == GetStockHistoryData \/ HistoryAttempt \/ RetryWake

SpecHistoryRetry == InitRetry /\ [][NextHistoryRetry]_vars

SpotEndpoints == {"stock_sz_a_spot_em", "stock_sh_a_spot_em"}

RetryRequest == RetryCall("_retry_request", SpotEndpoints)

RequestAttempt ==
    LET pass(response, attempt) ==
            retry_request_attempt(response, attempt, rq_max, RetryDelay)
    IN  RetryPass(pass)

NextRequestRetry == RetryRequest \/ RequestAttempt \/ RetryWake

SpecRequestRetry == InitRetry /\ [][NextRequestRetry]_vars

Attempts == 1..Len(rq_log)
Unsuccessful(k) == ~HasRows(rq_log[k])

C26_DelayBetweenAttempts ==
    (rq_pc = "done" /\ rq_max > 0) =>
        /\ Len(rq_log) \in 1..rq_max
        /\ \A k \in Attempts :
               IF Unsuccessful(k)
               THEN k < Len(rq_log) => rq_sleeps[k] = RetryDelay
               ELSE Len(rq_log) = k /\ rq_ret = rq_log[k]
        /\ (\A k \in Attempts : Unsuccessful(k)) =>
               (rq_ret = <<>> /\ Len(rq_log) = rq_max)

(***************************************************************************)
(* StockDataScheduler.setup_history_schedule_once and its callers          *)
(***************************************************************************)
MaxHistoryOnce == 2

OutsideSetup == <<dailyVars, strategyVars, processVars, collectVars, schedVars,
                  httpVars, basicVars, serviceVars, requestVars, taskVars,
                  realtimeVars, deleteVars, signalVars, workerVars, lockVars,
                  singletonVars, retryVars,
        scrollVars,
        appVars,
        jobVars,
        backfillVars>>

\* the code lists a caller passes as stock_codes; <<>> also stands for None
SetupCodeLists == {<<>>, <<"000001">>, <<"000001", "600000">>}

\* what get_all_stock_codes returns: the codes of the index in ascending
\* order, [] when the index is empty or cannot be read
Universes == {<<>>, <<"600000">>, <<"000001", "600000">>}

\* the keyword parameters setup_history_schedule_once declares
SetupHistoryParams ==
    {"start_date", "end_date", "stock_codes", "adjust_flag", "execute_immediately"}

\* the keywords each caller passes
SetupCallers ==
    {"collect_history_data", "run_history_collection_by_api", "add_history_job",
     "add_stock_history_task"}

SetupCallKwargs(caller) ==
    {"start_date", "end_date", "stock_codes", "adjust_flag"}
    \cup (IF caller = "collect_history_data" THEN {"execute_immediately"}
          ELSE {"execute_now"})

\* the results of setup_history_schedule_once, over the keys a caller reads
SetupResult(kind, success, failed, total, stock_count) ==
    [kind |-> kind, success |-> success, failed |-> failed, total |-> total,
     stock_count |-> stock_count]

\* collect_history_data_by_api: the tally of the collector, or zeros with an
\* error when the collector raised
BackfillTallies(codes_arg) ==
    {SetupResult("tally", s, Len(codes_arg) - s, Len(codes_arg), 0) :
        s \in 0..Len(codes_arg)}
    \cup {SetupResult("tally_error", 0, 0, 0, 0)}

SetupOutcome(ret, backfills, registered) == [ret |-> ret, backfills |-> backfills, jobs |-> registered]

\* StockDataScheduler.setup_history_schedule_once: the call raises TypeError
\* before the body is entered when it passes a keyword the method does not
\* declare
setup_history_schedule_once(registry, universe, kwargs, codes_arg, execute_immediately, tally) ==
    IF ~(kwargs \subseteq SetupHistoryParams)
    THEN SetupOutcome(SetupResult("TypeError", 0, 0, 0, 0), <<>>, registry)
    ELSE LET codes == IF codes_arg = <<>> THEN universe ELSE codes_arg
         IN  IF codes = <<>>
             THEN SetupOutcome(SetupResult("error", 0, 0, 0, 0), <<>>, registry)
             ELSE IF execute_immediately
             THEN SetupOutcome(tally, <<[stock_codes |-> codes, result |-> tally]>>,
                               registry)
             ELSE SetupOutcome(SetupResult("scheduled", 0, 0, 0, Len(codes)), <<>>,
                               Append(registry,
                                      [tag |-> "history_once", every |-> "minute",
                                       stock_codes |-> codes]))

InitSetup ==
    /\ last_op = "init"
    /\ IdleDaily
    /\ IdleStrategy
    /\ IdleProcess
    /\ IdleCollect
    /\ IdleSched
    /\ IdleHttp
    /\ IdleBasic
    /\ IdleService
    /\ IdleRequest
    /\ IdleTask
    /\ IdleRealtime
    /\ IdleDelete
    /\ IdleSignal
    /\ IdleWorker
    /\ IdleLock
    /\ IdleSingleton
    /\ IdleRetry
    /\ IdleScroll
    /\ IdleApp
    /\ IdleJob
    /\ IdleBackfill
    /\ hs_universe = <<>>
    /\ hs_call = None
    /\ hs_ret = None
    /\ hs_backfills = <<>>
    /\ hs_jobs = <<>>

\* the symbol universe is loaded or cleared
BasicIndexChanges ==
    \E universe \in Universes :
        /\ universe # hs_universe
        /\ last_op' = "basic_index_changes"
        /\ hs_universe' = universe
        /\ UNCHANGED <<hs_call, hs_ret, hs_backfills, hs_jobs, OutsideSetup>>

SetupCall(caller, kwargs, codes_arg, execute_immediately) ==
    \E tally \in BackfillTallies(IF codes_arg = <<>> THEN hs_universe ELSE codes_arg) :
        LET outcome == setup_history_schedule_once(hs_jobs, hs_universe, kwargs,
                                                   codes_arg, execute_immediately, tally)
        IN  /\ Len(outcome.jobs) <= MaxHistoryOnce
            /\ last_op' = "setup_history_schedule_once"
            /\ hs_call' = [caller |-> caller, stock_codes |-> codes_arg,
                           execute_now |-> execute_immediately]
            /\ hs_ret' = outcome.ret
            /\ hs_backfills' = outcome.backfills
            /\ hs_jobs' = outcome.jobs
            /\ UNCHANGED <<hs_universe, OutsideSetup>>

\* a call that names the flag as the method declares it, as
\* StockService.collect_history_data does with True
SetupHistoryScheduleOnce ==
    \E codes_arg \in SetupCodeLists, execute_immediately \in BOOLEAN :
        SetupCall(IF execute_immediately THEN "collect_history_data" ELSE "direct",
                  SetupCallKwargs("collect_history_data"), codes_arg,
                  execute_immediately)

\* run_history_collection_by_api of main.py (--history-api)
RunHistoryCollectionByApi ==
    \E codes_arg \in SetupCodeLists :
        SetupCall("run_history_collection_by_api",
                  SetupCallKwargs("run_history_collection_by_api"), codes_arg, TRUE)

\* collect_history of SchedulerService.add_history_job and
\* add_stock_history_task, when the job fires
ServiceHistoryJobFires ==
    \E caller \in {"add_history_job", "add_stock_history_task"},
       codes_arg \in SetupCodeLists :
        SetupCall(caller, SetupCallKwargs(caller), codes_arg, TRUE)

NextSetup ==
    \/ BasicIndexChanges
    \/ SetupHistoryScheduleOnce
    \/ RunHistoryCollectionByApi
    \/ ServiceHistoryJobFires

SpecSetup == InitSetup /\ [][NextSetup]_vars

ResolvedCodes(call, universe) ==
    IF call.stock_codes = <<>> THEN universe ELSE call.stock_codes

\* C29: a call of setup_history_schedule_once without codes over an empty
\* symbol universe returns an error result with total 0, runs no backfill
\* and registers no job; a call with the execute-now flag set, as the
\* --history-api path and the SchedulerService history registered make it, runs
\* one backfill during the call, registers no job and returns that
\* backfill's tally; any other call registers one job that recurs every
\* minute and runs no backfill.  It fails for the --history-api path and the
\* SchedulerService registered: their call raises TypeError and runs nothing.
C29_HistorySetup ==
    [][last_op' = "setup_history_schedule_once" =>
          IF ResolvedCodes(hs_call', hs_universe) = <<>>
          THEN /\ hs_ret'.kind = "error" /\ hs_ret'.total = 0
               /\ hs_backfills' = <<>>
               /\ hs_jobs' = hs_jobs
          ELSE IF hs_call'.execute_now
          THEN /\ Len(hs_backfills') = 1
               /\ hs_backfills'[1].stock_codes = ResolvedCodes(hs_call', hs_universe)
               /\ hs_ret' = hs_backfills'[1].result
               /\ hs_ret'.kind \in {"tally", "tally_error"}
               /\ hs_jobs' = hs_jobs
          ELSE /\ hs_backfills' = <<>>
               /\ Len(hs_jobs') = Len(hs_jobs) + 1
               /\ hs_jobs'[Len(hs_jobs')].every = "minute"
               /\ SubSeq(hs_jobs', 1, Len(hs_jobs)) = hs_jobs]_vars

(***************************************************************************)
(* ElasticsearchStorage.get_all_stock_codes                                *)
(***************************************************************************)
MaxScrolls == 4

OutsideScroll == <<dailyVars, strategyVars, processVars, collectVars, schedVars,
                   httpVars, basicVars, serviceVars, requestVars, taskVars,
                   realtimeVars, deleteVars, signalVars, workerVars, lockVars,
                   singletonVars, retryVars, setupVars,
        appVars,
        jobVars,
        backfillVars>>

\* the hits of one page: a page of the scroll holds at most one document
\* here; an empty page ends the scroll
ScrollPages == {<<>>, <<"000001">>, <<"600000">>}

InitScroll ==
    /\ last_op = "init"
    /\ IdleDaily
    /\ IdleStrategy
    /\ IdleProcess
    /\ IdleCollect
    /\ IdleSched
    /\ IdleHttp
    /\ IdleBasic
    /\ IdleService
    /\ IdleRequest
    /\ IdleTask
    /\ IdleRealtime
    /\ IdleDelete
    /\ IdleSignal
    /\ IdleWorker
    /\ IdleLock
    /\ IdleSingleton
    /\ IdleRetry
    /\ IdleSetup
    /\ IdleApp
    /\ IdleJob
    /\ IdleBackfill
    /\ sc_pc = "idle"
    /\ sc_codes = <<>>
    /\ sc_scrolls = 0
    /\ sc_context = "none"
    /\ sc_clear = FALSE
    /\ sc_ret = {}

\* the outer except: the error is logged and [] returned
scroll_failed(context) ==
    [pc |-> "done", context |-> context, ret |-> {}]

\* entry of get_all_stock_codes up to the loop test: without a client, or
\* when the initial search raises, [] is returned and no context is open
GetAllStockCodes ==
    \E client \in BOOLEAN, raises \in BOOLEAN, hits \in ScrollPages :
        /\ sc_pc \in {"idle", "done"}
        /\ last_op' = "get_all_stock_codes"
        /\ sc_scrolls' = 0
        /\ sc_clear' = FALSE
        /\ IF ~client \/ raises
           THEN /\ sc_pc' = scroll_failed("none").pc
                /\ sc_context' = scroll_failed("none").context
                /\ sc_ret' = scroll_failed("none").ret
                /\ sc_codes' = <<>>
           ELSE /\ sc_codes' = hits
                /\ sc_context' = "open"
                /\ sc_ret' = {}
                \* while scroll_id and len(response['hits']['hits']) > 0
                /\ sc_pc' = IF Len(hits) > 0 THEN "scroll" ELSE "clear"
        /\ UNCHANGED OutsideScroll

\* one pass of the while loop: es_client.scroll returns the next page or
\* raises
ScrollNext ==
    \E raises \in BOOLEAN, hits \in ScrollPages :
        /\ sc_pc = "scroll"
        /\ sc_scrolls < MaxScrolls
        /\ last_op' = "scroll"
        /\ sc_scrolls' = sc_scrolls + 1
        /\ IF raises
           THEN /\ sc_pc' = scroll_failed(sc_context).pc
                /\ sc_context' = scroll_failed(sc_context).context
                /\ sc_ret' = scroll_failed(sc_context).ret
                /\ UNCHANGED sc_codes
           ELSE /\ sc_codes' = sc_codes \o hits
                /\ sc_pc' = IF Len(hits) > 0 THEN "scroll" ELSE "clear"
                /\ UNCHANGED <<sc_context, sc_ret>>
        /\ UNCHANGED <<sc_clear, OutsideScroll>>

\* clear_scroll, whose own failure is ignored, and return list(set(stock_codes))
ClearScroll ==
    \E raises \in BOOLEAN :
        /\ sc_pc = "clear"
        /\ last_op' = "clear_scroll"
        /\ sc_clear' = TRUE
        /\ sc_context' = IF raises THEN sc_context ELSE "cleared"
        /\ sc_ret' = Range(sc_codes)
        /\ sc_pc' = "done"
        /\ UNCHANGED <<sc_codes, sc_scrolls, OutsideScroll>>

NextScroll == GetAllStockCodes \/ ScrollNext \/ ClearScroll

SpecScroll == InitScroll /\ [][NextScroll]_vars

\* C31: on every path out of get_all_stock_codes after the initial search
\* succeeded, a clear of the scroll context it opened has been attempted.
\* It fails when a scroll request raises: the call returns [] from the outer
\* except with the context still open and no clear attempted.
C31_ScrollCleared ==
    (sc_pc = "done" /\ sc_context # "none") => sc_clear

(***************************************************************************)
(* create_app, its before_request hook and the signal handler of           *)
(* start_api.py                                                            *)
(***************************************************************************)
MaxRequests == 5

OutsideApp == <<dailyVars, strategyVars, processVars, collectVars, schedVars,
                basicVars, serviceVars, requestVars, taskVars,
                realtimeVars, deleteVars, signalVars, workerVars, lockVars,
                singletonVars, retryVars, setupVars, scrollVars,
        jobVars,
        backfillVars>>

\* create_app: scheduler_service = SchedulerService(); init_app stores it as
\* app.scheduler_service
BoundInstance == 1

\* the scheduler routes that read or change the running flag, and two routes
\* that do not touch the scheduler service
SchedulerRoutes == {"status", "start", "stop"}
AppRoutes == SchedulerRoutes \cup {"health", "index"}

StatusEnvelope(running) == [status |-> 200, success |-> TRUE, running |-> running]

\* get_scheduler_service(): the global is filled by the first call, with a
\* SchedulerService of its own
AccessorCall(running, accessor) ==
    IF accessor = 0
    THEN [running |-> Append(running, FALSE), instance |-> Len(running) + 1]
    ELSE [running |-> running, instance |-> accessor]

\* initialize_app: fetches the accessor's instance and, with
\* AUTO_START_SCHEDULER, calls start() on it, a method SchedulerService
\* does not define
initialize_app(running, accessor, auto_start) ==
    LET got == AccessorCall(running, accessor)
    IN  [running |-> IF auto_start /\ "start" \in SchedulerServiceMethods
                     THEN [got.running EXCEPT ![got.instance] = TRUE]
                     ELSE got.running,
         accessor |-> got.instance,
         raised |-> before_request_raises(auto_start)]

InitApp ==
    /\ last_op = "init"
    /\ IdleDaily
    /\ IdleStrategy
    /\ IdleProcess
    /\ IdleCollect
    /\ IdleSched
    /\ http_req = None
    /\ http_resp = None
    /\ auto_start_scheduler \in BOOLEAN
    /\ IdleBasic
    /\ IdleService
    /\ IdleRequest
    /\ IdleTask
    /\ IdleRealtime
    /\ IdleDelete
    /\ IdleSignal
    /\ IdleWorker
    /\ IdleLock
    /\ IdleSingleton
    /\ IdleRetry
    /\ IdleSetup
    /\ IdleScroll
    /\ IdleJob
    /\ IdleBackfill
    /\ ap_running = <<FALSE>>
    /\ ap_accessor = 0
    /\ ap_requests = 0
    /\ ap_hook_runs = 0
    /\ ap_exited = FALSE

\* a request to a scheduler route: the hook runs, then the route on
\* current_app.scheduler_service unless the hook raised
AppRequest ==
    \E route \in AppRoutes :
        LET hook == initialize_app(ap_running, ap_accessor, auto_start_scheduler)
        IN  /\ ~ap_exited
            /\ ap_requests < MaxRequests
            /\ last_op' = "request"
            /\ http_req' = [method |-> IF route \in {"start", "stop"} THEN "POST" ELSE "GET",
                            path |-> route, body |-> ""]
            /\ ap_requests' = ap_requests + 1
            /\ ap_hook_runs' = ap_hook_runs + 1
            /\ ap_accessor' = hook.accessor
            /\ IF hook.raised
               THEN /\ http_resp' = ServerError
                    /\ ap_running' = hook.running
               ELSE /\ ap_running' =
                           [hook.running EXCEPT ![BoundInstance] =
                                IF route = "start" THEN TRUE
                                ELSE IF route = "stop" THEN FALSE ELSE @]
                    /\ http_resp' = IF route \notin SchedulerRoutes
                                    THEN [status |-> 200, success |-> TRUE]
                                    ELSE StatusEnvelope(ap_running'[BoundInstance])
            /\ UNCHANGED <<auto_start_scheduler, ap_exited, OutsideApp>>

\* signal_handler of start_api.py: fetches the accessor's instance and calls
\* stop() on it, a method SchedulerService does not define; the error is
\* caught and the process exits
SignalHandler ==
    LET got == AccessorCall(ap_running, ap_accessor)
    IN  /\ ~ap_exited
        /\ last_op' = "signal_handler"
        /\ ap_accessor' = got.instance
        /\ ap_running' = IF "stop" \in SchedulerServiceMethods
                         THEN [got.running EXCEPT ![got.instance] = FALSE]
                         ELSE got.running
        /\ ap_exited' = TRUE
        /\ UNCHANGED <<http_req, http_resp, auto_start_scheduler, ap_requests,
                       ap_hook_runs, OutsideApp>>

NextApp == AppRequest \/ SignalHandler

SpecApp == InitApp /\ [][NextApp]_vars

\* C32: initialize_app runs before the first request only, so the scheduler
\* service is initialized once; with AUTO_START_SCHEDULER the hook starts
\* the scheduler and the first request is served normally; later requests
\* neither run the initialization again nor start the scheduler again.  It
\* fails on the second request, which runs the hook again, and with
\* AUTO_START_SCHEDULER on the first, which is answered 500 with no scheduler
\* started.
C32_InitializedOnce ==
    /\ ap_hook_runs <= 1
    /\ (last_op = "request" /\ ap_requests = 1 /\ auto_start_scheduler) =>
           /\ http_resp.status = 200
           /\ \E i \in 1..Len(ap_running) : ap_running[i]

\* C34: the instance the scheduler routes operate on, bound to the
\* application by create_app, is the instance get_scheduler_service()
\* returns, so the hook and the signal handler act on the scheduler whose
\* state /api/v1/scheduler/status reports.  It fails once the accessor was
\* called: it holds a SchedulerService of its own.
C34_SameInstance ==
    /\ ap_accessor # 0 => ap_accessor = BoundInstance
    /\ Len(ap_running) = 1


(***************************************************************************)
(* Repeated history backfills of one symbol                                *)
(***************************************************************************)
MaxBackfills == 3

OutsideBackfill == <<strategyVars, processVars, collectVars, schedVars,
                basicVars, serviceVars, requestVars, taskVars,
                realtimeVars, deleteVars, signalVars, workerVars, lockVars,
                singletonVars, retryVars, setupVars, scrollVars,
        jobVars,
        httpVars, appVars>>

\* the closes the upstream reports, one per trading day, the same at every
\* fetch
UpstreamCloses == [Days -> {1000, 1050}]

\* the frame get_stock_history_data returns for a date range
HistoryFrame(upstream, start_date, end_date) ==
    [i \in 1..(end_date - start_date + 1) |->
        [date |-> start_date + i - 1, close |-> upstream[start_date + i - 1]]]

InitBackfill ==
    /\ last_op = "init"
    /\ IdleDaily
    /\ IdleStrategy
    /\ IdleProcess
    /\ IdleCollect
    /\ IdleSched
    /\ IdleHttp
    /\ IdleBasic
    /\ IdleService
    /\ IdleRequest
    /\ IdleTask
    /\ IdleRealtime
    /\ IdleDelete
    /\ IdleSignal
    /\ IdleWorker
    /\ IdleLock
    /\ IdleSingleton
    /\ IdleRetry
    /\ IdleSetup
    /\ IdleScroll
    /\ IdleApp
    /\ IdleJob
    /\ bf_upstream \in UpstreamCloses
    /\ bf_range = <<>>
    /\ bf_count = 0

\* collect_history_data_by_codes for one symbol whose fetch succeeds: the
\* frame is processed and the batch saved
Backfill ==
    \E start_date \in Days, end_date \in Days :
        /\ start_date <= end_date
        /\ bf_count < MaxBackfills
        /\ last_op' = "collect_history_data_by_codes"
        /\ bf_range' = <<start_date, end_date>>
        /\ bf_count' = bf_count + 1
        /\ \E batch \in process_history_data(
                   HistoryFrame(bf_upstream, start_date, end_date), "000001") :
               \E outcome \in save_daily_data(daily_index, batch) :
                   daily_index' = outcome.index
        /\ UNCHANGED <<daily_client, bf_upstream, OutsideBackfill>>

NextBackfill == Backfill

SpecBackfill == InitBackfill /\ [][NextBackfill]_vars

\* C37: after any sequence of backfills of one symbol with unchanged
\* upstream prices, every stored record whose preceding trading date is
\* also stored carries that record's close as its prev_close_price.  It
\* fails after a backfill of days 1..2 followed by one of days 2..3: the
\* second writes day 2 again with prev_close_price 0.
C37_PrevCloseChain ==
    \A d \in daily_index, p \in daily_index :
        (/\ d.source.stock_code = p.source.stock_code
         /\ p.source.date = d.source.date - 1) =>
            d.source.prev_close_price = p.source.close_price


(***************************************************************************)
(* Installing the built-in schedule beside other jobs                      *)
(***************************************************************************)
MaxPendingJobs == 2

\* the job setup_history_schedule_once leaves in the registry of the
\* schedule module: every minute, tagged history_once
HistoryOnceJob == [job |-> "collect_history_data_by_api", at |-> NoTime]

\* the ids FlaskStockDataScheduler.add_history_job gives its jobs, one per
\* second of the clock
FlaskHistoryJobIds == {"history_collection_1", "history_collection_2"}

BuiltinJobs == {"collect_and_save_data", "collect_realtime_data_once"}
BuiltinJobIds == {"daily_stock_collection", "daily_realtime_collection"}

Pending(registry) ==
    Cardinality({i \in 1..Len(registry) : registry[i] = HistoryOnceJob})

\* StockDataScheduler.setup_history_schedule_once with stock codes and
\* execute_immediately = False
SdsSetupHistoryOnce ==
    /\ Pending(schedule_jobs) < MaxPendingJobs
    /\ last_op' = "sds_setup_history_schedule_once"
    /\ ts_arg' = NoTime
    /\ schedule_jobs' = Append(schedule_jobs, HistoryOnceJob)
    /\ ts_ret' = Returned("scheduled")
    /\ UNCHANGED <<cfg_schedule_time, sds, fsd, OutsideTask>>

\* FlaskStockDataScheduler.add_history_job with stock codes and
\* execute_immediately = False, on a scheduler that is not started: the
\* job waits in the job store, replacing one of the same id
FsdAddHistoryJob ==
    \E job_id \in FlaskHistoryJobIds :
        /\ fsd.exists
        /\ ~fsd.aps_running
        /\ last_op' = "fsd_add_history_job"
        /\ ts_arg' = NoTime
        /\ fsd' = [fsd EXCEPT !.jobs =
                       Append(SelectSeq(fsd.jobs, LAMBDA j : j.id # job_id),
                              [id |-> job_id, at |-> NoTime])]
        /\ ts_ret' = Returned("scheduled")
        /\ UNCHANGED <<cfg_schedule_time, sds, schedule_jobs, OutsideTask>>

NextInstall == NextTask \/ SdsSetupHistoryOnce \/ FsdAddHistoryJob

SpecInstall == InitTask /\ [][NextInstall]_vars

\* C38: installing or re-installing the built-in schedule (start(), or
\* update_schedule_time on a running scheduler) changes only the daily
\* snapshot job and the 16:00 realtime job: every other job in the registry
\* is still registered afterward.  It fails: setup_schedule empties the
\* whole registry first, a pending history job included.
C38_InstallKeepsOtherJobs ==
    [][last_op' \in {"sds_start", "sds_update_schedule_time", "fsd_start",
                     "fsd_update_schedule_time"} =>
           /\ \A i \in 1..Len(schedule_jobs) :
                  schedule_jobs[i].job \notin BuiltinJobs =>
                      \E j \in 1..Len(schedule_jobs') :
                          schedule_jobs'[j] = schedule_jobs[i]
           /\ \A i \in 1..Len(fsd.jobs) :
                  fsd.jobs[i].id \notin BuiltinJobIds =>
                      \E j \in 1..Len(fsd'.jobs) : fsd'.jobs[j] = fsd.jobs[i]]_vars

====
